---- MODULE Spec2Model ----
(***************************************************************************)
(* Verification model of cf-router-acceptance-tests.                       *)
(*                                                                         *)
(* Part 1: the etcd-backed route store of the vendored routing-api         *)
(*         (SaveRoute, SaveTcpRouteMapping, DeleteRoute, ...), run by      *)
(*         concurrent savers and deleters against one etcd key space.      *)
(***************************************************************************)
EXTENDS Integers, Sequences, FiniteSets, TLC

VARIABLES
    store,      \* etcd: key -> node (value with its modification tag, ModifiedIndex, TTL)
    etcdIndex,  \* etcd: the cluster-wide index, bumped by every change
    fn,         \* which save function the savers run: SaveRoute or SaveTcpRouteMapping
    pc,         \* saver -> position in the save function
    retries,    \* saver -> local variable retries
    resp,       \* saver -> response.Node of the Get of the current attempt
    arg,        \* saver -> the route / mapping passed to the save function
    result,     \* saver -> what the last call returned
    lastWrite   \* history: the last successful Set (who, create/update, index read, index replaced)

saveVars == <<store, etcdIndex, fn, pc, retries, resp, arg, result, lastWrite>>

(***************************************************************************)
(* Part 2: the router acceptance test's connection check                   *)
(*         (verifyConnection / checkConnection of the "Routing Test").     *)
(***************************************************************************)
VARIABLES
    vpc,        \* verifyConnection: "idle", "loop" (in the select), "passed", "failed"
    i,          \* verifyConnection: local variable i
    errChan,    \* verifyConnection: errChan, a channel of capacity 1
    vargs,      \* verifyConnection: its arguments externalPort, serverId
    chk,        \* the checkConnection goroutines started so far, in start order
    results     \* history: what verifyConnection received on errChan ("err" / "nil")

verifyVars == <<vpc, i, errChan, vargs, chk, results>>

(***************************************************************************)
(* Part 3: the "Routing Test" specs (site.go) driving the TCP router: the   *)
(*         mapping API, the proxy that applies a mapping some time after    *)
(*         it was accepted, the sample receivers and the desired LRPs.      *)
(***************************************************************************)
VARIABLES
    scenario,   \* which It block runs
    tpc,        \* position of the spec (BeforeEach, It, AfterEach)
    receivers,  \* running sample receivers: set of [port, id]
    desired,    \* router: external port -> backends of the last accepted mapping
    active,     \* router: external port -> backends the proxy forwards to
    rr,         \* router: external port -> connections forwarded since the mapping was applied
    lag,        \* seconds the client has waited since a mapping was accepted and not yet applied
    lrp,        \* BBS: the desired LRP (its server id and TCP routes)
    probes,     \* load-balancing spec: polls of Eventually(net.Dial) so far
    lastConn,   \* history: the backend the router chose for the last connection
    responses,  \* load-balancing spec: response1, response2
    served      \* history: per verifyConnection that passed, the port and the backend that answered

routeVars == <<scenario, tpc, receivers, desired, active, rr, lag, lrp, probes,
               lastConn, responses, served>>

(***************************************************************************)
(* Part 4: the routing-api stats specs (stats_test.go): the routing API     *)
(*         reporting to a fake statsd server whose datagrams a goroutine    *)
(*         forwards line by line to fakeStatsdChan.                         *)
(***************************************************************************)
VARIABLES
    sscenario,      \* which It block runs
    sphase,         \* "before", "it", "failed", "done"
    spc,            \* index of the next step of the It block
    calling,        \* the client waits for the answer to UpsertRoutes
    apiUp,          \* routingAPIProcess is running
    watchQ,         \* route events etcd has for the metrics reporter's watcher
    handlers,       \* event-stream handlers that have not reported their subscription yet
    subs,           \* open event streams
    statsBuf,       \* statsd client: lines buffered for the next datagram
    sent,           \* history: the statsd lines the routing API has emitted, with their cause
    udp,            \* datagrams in the socket of fakeStatsdServer
    sockClosed,     \* fakeStatsdServer.Close() was called
    reader,         \* the goroutine of BeforeEach: position and scanned lines not yet forwarded
    fakeStatsdChan  \* the channel: its buffer (capacity 1) and whether it is closed

statsVars == <<sscenario, sphase, spc, calling, apiUp, watchQ, handlers, subs, statsBuf,
               sent, udp, sockClosed, reader, fakeStatsdChan>>

(***************************************************************************)
(* Part 5: the config loaders of the two helpers packages                   *)
(***************************************************************************)
VARIABLES
    loader,         \* which package's LoadConfig runs: "router" or "routing"
    env,            \* the environment variables of the process
    files,          \* the file system: what is at each path
    lib,            \* what config.LoadConfig() of cf-test-helpers will answer
    cpc,            \* position in LoadConfig
    path,           \* the local variable path
    opened,         \* history: the paths given to os.Open
    loadedConfig,   \* the local variable loadedConfig
    panicked        \* the value LoadConfig panicked with, "" if none

cfgVars == <<loader, env, files, lib, cpc, path, opened, loadedConfig, panicked>>

(***************************************************************************)
(* Part 6: the smoke test "map tcp route to app successfully" (README.md)   *)
(***************************************************************************)
VARIABLES
    smokeVersion,   \* which version of the It block runs: "early" or "late"
    lbConfigured,   \* routingConfig.LBConfigured
    mpc,            \* position in the It block
    appStarted,     \* the app runs
    ccRoute,        \* the TCP route of the app in the cloud controller: its port, 0 if none
    routerTable,    \* the ports the TCP router forwards to the app
    appUrl,         \* the local variables addr and port
    resp1,          \* the answer to the first GET
    resp2           \* the answer to the second GET

smokeVars == <<smokeVersion, lbConfigured, mpc, appStarted, ccRoute, routerTable,
               appUrl, resp1, resp2>>

(***************************************************************************)
(* Part 7: the router groups of the etcd store (SaveRouterGroup,            *)
(*         ReadRouterGroup, ReadRouterGroups)                               *)
(***************************************************************************)
VARIABLES
    rgStore,        \* the nodes under ROUTER_GROUP_BASE_KEY, by guid
    rgpc,           \* position of each caller in SaveRouterGroup
    rgArg,          \* the routerGroup each caller saves
    rgResult,       \* what SaveRouterGroup returned to each caller
    rgRead          \* the last ReadRouterGroup call: what was stored, what it returned

groupVars == <<rgStore, rgpc, rgArg, rgResult, rgRead>>

(***************************************************************************)
(* Part 8: SaveRoute and SaveTcpRouteMapping side by side against one       *)
(*         sequence of answers of the KeysAPI                               *)
(***************************************************************************)
VARIABLES
    call            \* per function: position, retries, response, result, trace of operations

protoVars == <<call>>

(***************************************************************************)
(* Part 9: the delete and list functions of the etcd store                  *)
(*         (DeleteRoute, DeleteTcpRouteMapping, ReadRoutes,                 *)
(*         ReadTcpRouteMappings, ReadRouterGroups)                          *)
(***************************************************************************)
VARIABLES
    tcpStore,       \* the nodes under TCP_MAPPING_BASE_KEY, by router group, port and host
    lastDelete,     \* history: the last delete call, what it found and what it returned
    lastRead        \* history: the last list call, what was stored and what it returned

entVars == <<tcpStore, lastDelete, lastRead>>

(***************************************************************************)
(* Part 10: NewJointDB and the database it returns                          *)
(***************************************************************************)
VARIABLES
    jargs,          \* the two arguments of NewJointDB
    jdb,            \* what NewJointDB returned: the jointDB and the error
    jcall           \* for each operation called on the jointDB, the database that served it

jointVars == <<jargs, jdb, jcall>>

(***************************************************************************)
(* Part 11: WatchRouteChanges and its dispatcher goroutine                  *)
(***************************************************************************)
VARIABLES
    wpc,            \* where the dispatcher goroutine is
    watchers,       \* the key of every watcher the dispatcher created, in order
    wctx,           \* what cancelled the context of the watch, "none" while it is live
    werr,           \* what the last watcher.Next returned
    wval,           \* the value the dispatcher is about to send
    wresponses,     \* the number of responses the watchers returned
    wrecv,          \* what the consumer received from the two channels, in order
    wclosed,        \* how many times each channel was closed
    wconsumer       \* whether the consumer still receives from the channels

watchVars == <<wpc, watchers, wctx, werr, wval, wresponses, wrecv, wclosed, wconsumer>>

(***************************************************************************)
(* Part 12: the shared domain of the smoke test                             *)
(***************************************************************************)
VARIABLES
    domVersion,     \* which version of the smoke test runs: "early" or "late"
    tcpAppsDomain,  \* tcp_apps_domain of the configuration file, "" when it is not set
    routingConfig,  \* TcpAppDomain of the package-level variable routingConfig
    domainName,     \* the package-level variable domainName
    sharedDomains,  \* the shared domains of the platform
    dpc,            \* where the spec is: BeforeEach, the It block, AfterEach
    created,        \* the domains BeforeEach created
    deleted         \* the domains AfterEach deleted

domVars == <<domVersion, tcpAppsDomain, routingConfig, domainName, sharedDomains, dpc, created, deleted>>

(***************************************************************************)
(* Part 13: the ports of the parallel test nodes                            *)
(***************************************************************************)
VARIABLES
    running,        \* for each Ginkgo node, the Describe block it runs, "none" between blocks
    inUse           \* for each Ginkgo node, the ports its block has derived

portVars == <<running, inUse>>

(***************************************************************************)
(* Part 14: GrabName                                                        *)
(***************************************************************************)
VARIABLES
    logLines,       \* the output of `cf router-groups` given to GrabName
    gpc,            \* "call" before GrabName has run, "returned" after
    grabbed         \* what GrabName did: whether an assertion failed, and the name returned

grabVars == <<logLines, gpc, grabbed>>

vars == <<saveVars, verifyVars, routeVars, statsVars, cfgVars, smokeVars, groupVars, protoVars, entVars, jointVars, watchVars, domVars, portVars, grabVars>>

----------------------------------------------------------------------------
(* Bounds and constants *)

\* const maxRetries = 3
maxRetries == 3

\* the etcd index stops growing here
MaxIndex == 6

Savers == {"s1", "s2"}

Keys == {"route1", "routeExpire", "self"}

\* TTLs of the routes the suite saves (seconds)
Route1TTL == 55
RouteExpireTTL == 1


\* TTL of the route the routing API registers for itself (seconds)
SelfRouteTTL == 120

\* the ticker of the metrics reporter fires at most this often
MaxTicks == 2
----------------------------------------------------------------------------
(* etcd v2 keys API, as the store the db package talks to *)

NoNode ==
    [exists |-> FALSE, ok |-> TRUE, guid |-> 0, tagIndex |-> 0, mindex |-> 0, ttl |-> 0]

\* client.KeysAPI.Get on one key: the node, or error 100 (key not found)
KeysGet(n) ==
    IF n.exists
    THEN [isNil |-> FALSE, node |-> n, err |-> "nil"]
    ELSE [isNil |-> TRUE, node |-> NoNode, err |-> "KeyNotFound"]

\* a Get that fails for another reason (transport, cluster)
GetFailure == [isNil |-> TRUE, node |-> NoNode, err |-> "Other"]

\* client.KeysAPI.Set: PrevExist "false" is a create (error 105 when the key
\* exists), PrevExist "true" needs the key (error 100), PrevIndex # 0 a compare-and-swap on ModifiedIndex (error 100 when
\* the key is gone, 101 when the index differs), neither an unconditional set.
KeysSetErr(n, opts) ==
    IF opts.PrevExist = "false"
    THEN IF n.exists THEN "NodeExist" ELSE "nil"
    ELSE IF opts.PrevExist = "true" /\ ~n.exists
    THEN "KeyNotFound"
    ELSE IF opts.PrevIndex # 0
         THEN IF ~n.exists THEN "KeyNotFound"
              ELSE IF n.mindex # opts.PrevIndex THEN "TestFailed" ELSE "nil"
         ELSE "nil"

\* the node a successful Set leaves behind
KeysSetNode(idx, value, opts) ==
    [exists |-> TRUE, ok |-> TRUE, guid |-> value.guid, tagIndex |-> value.tagIndex,
     mindex |-> idx + 1, ttl |-> opts.TTL]

----------------------------------------------------------------------------
(* db package: option builders *)

createOptsMustExist(ttl) ==
    [TTL |-> ttl, PrevExist |-> "true", PrevIndex |-> 0]

createOptsNoTTL(ttl) ==
    [TTL |-> 0, PrevExist |-> "false", PrevIndex |-> 0]

createOpts(ttl) ==
    [TTL |-> ttl, PrevExist |-> "false", PrevIndex |-> 0]

updateOptsWithTTLUnconditional(ttl, prevIndex) ==
    [TTL |-> ttl, PrevExist |-> "", PrevIndex |-> 0]

updateOptsWithTTL(ttl, prevIndex) ==
    [TTL |-> ttl, PrevExist |-> "", PrevIndex |-> prevIndex]

LoopCondOnceMore(r) == r <= maxRetries + 1

\* for retries <= maxRetries
LoopCond(r) == r <= maxRetries

----------------------------------------------------------------------------
(* SaveRoute / SaveTcpRouteMapping, one attempt = one Get step + one Set step *)

NoTag == [guid |-> 0, tagIndex |-> 0]

NoWrite ==
    [by |-> "none", kind |-> "none", observed |-> 0, replaced |-> 0, retried |-> FALSE,
     tag |-> NoTag, before |-> NoTag, created |-> NoTag, saves |-> 0, writes |-> 0, tags |-> {}]

\* return from the save function
Return(p, r) ==
    /\ pc' = [pc EXCEPT ![p] = "done"]
    /\ result' = [result EXCEPT ![p] = r]

\* retries++ and the loop condition; leaving the loop this way is ErrorConflict
\* (SaveRoute: if retries > maxRetries after the loop; SaveTcpRouteMapping:
\* the return after the loop)
Retry(p) ==
    /\ retries' = [retries EXCEPT ![p] = retries[p] + 1]
    /\ IF LoopCond(retries[p] + 1)
       THEN pc' = [pc EXCEPT ![p] = "get"] /\ UNCHANGED result
       ELSE Return(p, "ErrorConflict")

\* the tail of one loop iteration: only retry on a compare and swap error
AfterErr(p, e) ==
    IF e = "TestFailed"
    THEN Retry(p)
    ELSE Return(p, e) /\ UNCHANGED retries

\* a call starts: retries := 0
SaveStart(p, k, ttl) ==
    /\ pc[p] \in {"idle", "done"}
    /\ etcdIndex < MaxIndex
    /\ arg' = [arg EXCEPT ![p] = [key |-> k, ttl |-> ttl]]
    /\ retries' = [retries EXCEPT ![p] = 0]
    /\ result' = [result EXCEPT ![p] = "none"]
    /\ IF LoopCond(0)
       THEN pc' = [pc EXCEPT ![p] = "get"]
       ELSE pc' = [pc EXCEPT ![p] = "done"]
    /\ UNCHANGED <<store, etcdIndex, fn, resp, lastWrite>>

\* response, err := e.keysAPI.Get(...) and the branch taken on it
SaveGetOn(p, out, tagOk) ==
    /\ pc[p] = "get"
    /\ IF ~out.isNil /\ out.err = "nil"
       THEN \* Update: json.Unmarshal of the stored value
            IF ~out.node.ok
            THEN Return(p, "Unmarshal") /\ UNCHANGED <<retries, resp>>
            ELSE /\ pc' = [pc EXCEPT ![p] = "update"]
                 /\ resp' = [resp EXCEPT ![p] = out.node]
                 /\ UNCHANGED <<retries, result>>
       ELSE IF out.err = "KeyNotFound"
            THEN \* create; a delete came in between a read and an update
                 IF retries[p] > 0
                 THEN Return(p, "ErrorConflict") /\ UNCHANGED <<retries, resp>>
                 ELSE \* tag, err = models.NewModificationTag()
                      IF tagOk
                      THEN /\ pc' = [pc EXCEPT ![p] = "create"]
                           /\ resp' = [resp EXCEPT ![p] = NoNode]
                           /\ UNCHANGED <<retries, result>>
                      ELSE Return(p, "TagError") /\ UNCHANGED <<retries, resp>>
            ELSE AfterErr(p, out.err) /\ UNCHANGED resp
    /\ UNCHANGED <<store, etcdIndex, fn, arg, lastWrite>>

SaveGet(p) ==
    \E out \in {KeysGet(store[arg[p].key]), GetFailure} :
        \E tagOk \in BOOLEAN : SaveGetOn(p, out, tagOk)

\* the value of a Set that keeps the tag of the caller's route
SetValueCallerTag(p) == NoTag

\* the value and the options of the Set of this attempt
SetValue(p) ==
    IF pc[p] = "update"
    THEN \* route.ModificationTag = existing.ModificationTag; Increment()
         [guid |-> resp[p].guid, tagIndex |-> resp[p].tagIndex + 1]
    ELSE \* models.NewModificationTag()
         [guid |-> etcdIndex + 1, tagIndex |-> 0]

SetOpts(p) ==
    IF pc[p] = "update"
    THEN updateOptsWithTTL(arg[p].ttl, resp[p].mindex)
    ELSE createOpts(arg[p].ttl)

\* Set succeeded: SaveRoute breaks out of the loop and tests retries,
\* SaveTcpRouteMapping returns nil
SetSucceeded(p) ==
    IF fn = "SaveRoute"
    THEN Return(p, IF retries[p] > maxRetries THEN "ErrorConflict" ELSE "nil")
    ELSE Return(p, "nil")

\* _, err = e.keysAPI.Set(...) answered by the store
SaveSet(p) ==
    /\ pc[p] \in {"update", "create"}
    /\ LET k == arg[p].key
           e == KeysSetErr(store[k], SetOpts(p))
       IN IF e = "nil"
          THEN /\ etcdIndex < MaxIndex
               /\ store' = [store EXCEPT ![k] = KeysSetNode(etcdIndex, SetValue(p), SetOpts(p))]
               /\ etcdIndex' = etcdIndex + 1
               /\ lastWrite' = [by |-> p, kind |-> pc[p], observed |-> resp[p].mindex,
                                replaced |-> store[k].mindex, retried |-> retries[p] > 0,
                                tag |-> SetValue(p),
                                before |-> [guid |-> store[k].guid, tagIndex |-> store[k].tagIndex],
                                created |-> IF pc[p] = "create" THEN SetValue(p)
                                            ELSE lastWrite.created,
                                saves |-> IF pc[p] = "create" THEN 1 ELSE lastWrite.saves + 1,
                                writes |-> lastWrite.writes + 1,
                                tags |-> lastWrite.tags \cup {SetValue(p)}]
               /\ SetSucceeded(p)
               /\ UNCHANGED retries
          ELSE /\ AfterErr(p, e)
               /\ UNCHANGED <<store, etcdIndex, lastWrite>>
    /\ UNCHANGED <<fn, resp, arg>>

\* the Set fails for a reason other than the store's answer; nothing is written
SaveSetFailure(p) ==
    /\ pc[p] \in {"update", "create"}
    /\ AfterErr(p, "Other")
    /\ UNCHANGED <<store, etcdIndex, fn, resp, arg, lastWrite>>

----------------------------------------------------------------------------
(* Other writers of the key *)

\* DeleteRoute / DeleteTcpRouteMapping: keysAPI.Delete without conditions.
\* The value is the error returned.
DeleteErrNotFoundIsNil(n) == "nil"

DeleteErr(n) ==
    IF n.exists THEN "nil" ELSE "DBError.KeyNotFound"

DeleteRoute(k) ==
    /\ etcdIndex < MaxIndex
    /\ IF DeleteErr(store[k]) = "nil"
       THEN /\ store' = [store EXCEPT ![k] = NoNode]
            /\ etcdIndex' = etcdIndex + 1
       ELSE UNCHANGED <<store, etcdIndex>>
    /\ UNCHANGED <<fn, pc, retries, resp, arg, result, lastWrite>>

\* etcd removes a node whose TTL has run out
Expire(k) ==
    /\ etcdIndex < MaxIndex
    /\ store[k].exists /\ store[k].ttl > 0
    /\ store' = [store EXCEPT ![k] = NoNode]
    /\ etcdIndex' = etcdIndex + 1
    /\ UNCHANGED <<fn, pc, retries, resp, arg, result, lastWrite>>

\* another client of the same etcd stores a value that is not a route
ForeignWrite(k) ==
    /\ etcdIndex < MaxIndex
    /\ store' = [store EXCEPT ![k] = [exists |-> TRUE, ok |-> FALSE, guid |-> 0,
                                       tagIndex |-> 0, mindex |-> etcdIndex + 1, ttl |-> 0]]
    /\ etcdIndex' = etcdIndex + 1
    /\ UNCHANGED <<fn, pc, retries, resp, arg, result, lastWrite>>

----------------------------------------------------------------------------
(* Routing Test: checkConnection and verifyConnection *)

\* errChan := make(chan error, 1)
ErrChanCap == 1

\* if i < 10
VerifyRetries == 10

\* bytes are modelled as tokens: a server id is a short sequence of them
serverId1 == <<"serverId", "1">>
serverId2 == <<"serverId", "2">>

\* time.Now().Nanosecond() takes one of these values
Nanos == {7, 8}

\* []byte(fmt.Sprintf("Time is %d", nanoSeconds))
Message(n) == <<"Time is ", n>>

\* expectedMessage := []byte(serverId + ":" + string(message))
ExpectedMessage(serverId, message) == serverId \o <<":">> \o message

\* buff := make([]byte, n); conn.Read(buff): at most n bytes are taken, the
\* rest of buff stays zero
ReadInto(n, data) ==
    [j \in 1..n |-> IF j <= Len(data) THEN data[j] ELSE "\\0"]

NewCheck == [pc |-> "sleep", conn |-> 0, message |-> <<>>, buff |-> <<>>, res |-> "-"]

\* a goroutine that has returned keeps nothing
DoneCheck == [pc |-> "done", conn |-> 0, message |-> <<>>, buff |-> <<>>, res |-> "-"]

IdleVerify ==
    /\ vpc = "idle"
    /\ i = 0
    /\ errChan = <<>>
    /\ vargs = [externalPort |-> 0, serverId |-> <<>>]
    /\ chk = <<>>
    /\ results = <<>>

GoCheckTwice == chk' = Append(Append(chk, NewCheck), NewCheck)

\* go checkConnection(errChan, address, serverId)
GoCheck == chk' = Append(chk, NewCheck)

\* time.Sleep(2 * time.Second)
CheckSleep(g) ==
    /\ chk[g].pc = "sleep"
    /\ chk' = [chk EXCEPT ![g].pc = "dial"]
    /\ UNCHANGED <<vpc, i, errChan, vargs, results>>

\* conn, err := net.DialTimeout(...); on error the goroutine is left to send err
CheckDial(g, failed, backend) ==
    /\ chk[g].pc = "dial"
    /\ chk' = IF failed
              THEN [chk EXCEPT ![g].pc = "send", ![g].res = "dial error"]
              ELSE [chk EXCEPT ![g].pc = "write", ![g].conn = backend]
    /\ UNCHANGED <<vpc, i, errChan, vargs, results>>

\* message := ...; _, err = conn.Write(message)
CheckWrite(g, failed, n) ==
    /\ chk[g].pc = "write"
    /\ chk' = IF failed
              THEN [chk EXCEPT ![g].pc = "send", ![g].res = "write error",
                               ![g].message = Message(n)]
              ELSE [chk EXCEPT ![g].pc = "read", ![g].message = Message(n)]
    /\ UNCHANGED <<vpc, i, errChan, vargs, results>>

\* buff := make([]byte, len(expectedMessage)); _, err = conn.Read(buff)
CheckRead(g, failed, data) ==
    /\ chk[g].pc = "read"
    /\ LET expectedMessage == ExpectedMessage(vargs.serverId, chk[g].message)
       IN chk' = IF failed
                 THEN [chk EXCEPT ![g].pc = "send", ![g].res = "read error"]
                 ELSE [chk EXCEPT ![g].pc = "compare",
                                  ![g].buff = ReadInto(Len(expectedMessage), data)]
    /\ UNCHANGED <<vpc, i, errChan, vargs, results>>

MessageMismatchNever(buff, expectedMessage) == FALSE

\* if !reflect.DeepEqual(buff, expectedMessage)
MessageMismatch(buff, expectedMessage) == buff # expectedMessage

CheckCompare(g) ==
    /\ chk[g].pc = "compare"
    /\ chk' = IF MessageMismatch(chk[g].buff,
                                 ExpectedMessage(vargs.serverId, chk[g].message))
              THEN [chk EXCEPT ![g].pc = "send", ![g].res = "Message mismatch"]
              ELSE [chk EXCEPT ![g].pc = "close"]
    /\ UNCHANGED <<vpc, i, errChan, vargs, results>>

\* errChan <- conn.Close(): the value sent is the result of Close
CheckClose(g, failed) ==
    /\ chk[g].pc = "close"
    /\ chk' = [chk EXCEPT ![g].pc = "send",
                          ![g].res = IF failed THEN "close error" ELSE "nil"]
    /\ UNCHANGED <<vpc, i, errChan, vargs, results>>

\* errChan <- err; return. The send blocks while the channel is full.
CheckSend(g) ==
    /\ chk[g].pc = "send"
    /\ Len(errChan) < ErrChanCap
    /\ errChan' = Append(errChan, chk[g].res)
    /\ chk' = [chk EXCEPT ![g] = DoneCheck]
    /\ UNCHANGED <<vpc, i, vargs, results>>

\* verifyConnection returns after break OUTERLOOP; goroutines that have
\* returned are gone
VerifyReturn ==
    /\ vpc = "passed"
    /\ vpc' = "idle"
    /\ chk' = SelectSeq(chk, LAMBDA c : c.pc # "done")
    /\ results' = <<>>
    /\ errChan' = <<>>
    /\ i' = 0
    /\ UNCHANGED vargs

\* verifyConnection up to the loop: make the channel, start the first check, i := 0
VerifyStart(externalPort, serverId) ==
    /\ vpc = "idle"
    /\ vpc' = "loop"
    /\ vargs' = [externalPort |-> externalPort, serverId |-> serverId]
    /\ errChan' = <<>>
    /\ i' = 0
    /\ GoCheck
    /\ UNCHANGED results

RetryAllowedOnceMore(n) == n <= VerifyRetries

RetryAllowed(n) == n < VerifyRetries

\* case err := <-errChan: retry, fail the assertion, or break OUTERLOOP
VerifyRecv ==
    /\ vpc = "loop"
    /\ errChan # <<>>
    /\ errChan' = Tail(errChan)
    /\ LET err == Head(errChan)
       IN IF err # "nil"
          THEN /\ results' = Append(results, "err")
               /\ IF RetryAllowed(i)
                  THEN /\ i' = i + 1
                       /\ GoCheck
                       /\ UNCHANGED vpc
                  ELSE \* Expect(err).ShouldNot(HaveOccurred()) fails the test
                       /\ vpc' = "failed"
                       /\ UNCHANGED <<i, chk>>
          ELSE /\ results' = Append(results, "nil")
               /\ vpc' = "passed"
               /\ UNCHANGED <<i, chk>>
    /\ UNCHANGED vargs


----------------------------------------------------------------------------
(* Routing Test: the deployment the specs drive *)

\* GinkgoParallelNode() of the node that runs the specs
GinkgoParallelNode == 1

\* the proxy applies an accepted mapping within this many seconds
RouterLatency == 4

\* time.Sleep(2 * time.Second) in checkConnection
CheckSleepSeconds == 2

\* Eventually(..., 20*time.Second, 1*time.Second)
ProbeTimeout == 20
ProbeInterval == 1

\* response := make([]byte, 1024)
ResponseSize == 1024

serverId3 == <<"serverId", "3">>
serverId4 == <<"serverId", "4">>
serverId6 == <<"serverId", "6">>

\* fmt.Sprintf("serverId-%d", GinkgoParallelNode())
serverIdNode == <<"serverId", "-", GinkgoParallelNode>>

Scenarios == {"routes", "loadbalance", "twoports", "updateport"}

\* the variables each BeforeEach sets
externalPort1 ==
    CASE scenario = "routes"      -> 60000 + GinkgoParallelNode
      [] scenario = "loadbalance" -> 61000 + GinkgoParallelNode
      [] scenario = "twoports"    -> 34500 + GinkgoParallelNode
      [] scenario = "updateport"  -> 62000 + GinkgoParallelNode
      [] OTHER                    -> 0

externalPort2 == 12300 + GinkgoParallelNode

\* externalPort1 = 63000 + GinkgoParallelNode() in the It block
externalPort1Updated == 63000 + GinkgoParallelNode

sampleReceiverPort1 ==
    CASE scenario = "routes"      -> 9000 + GinkgoParallelNode
      [] scenario = "loadbalance" -> 7000 + GinkgoParallelNode
      [] scenario = "twoports"    -> 7000 + GinkgoParallelNode
      [] scenario = "updateport"  -> 8000 + GinkgoParallelNode
      [] OTHER                    -> 0

sampleReceiverPort2 ==
    CASE scenario = "routes"      -> 9500 + GinkgoParallelNode
      [] scenario = "loadbalance" -> 7500 + GinkgoParallelNode
      [] OTHER                    -> 0

ServerId1 ==
    CASE scenario = "routes"      -> serverId1
      [] scenario = "loadbalance" -> serverId3
      [] scenario = "twoports"    -> serverId6
      [] scenario = "updateport"  -> serverIdNode
      [] OTHER                    -> <<>>

ServerId2 ==
    CASE scenario = "routes"      -> serverId2
      [] scenario = "loadbalance" -> serverId4
      [] OTHER                    -> <<>>

ExtPorts ==
    {60000 + GinkgoParallelNode, 61000 + GinkgoParallelNode, 34500 + GinkgoParallelNode,
     12300 + GinkgoParallelNode, 62000 + GinkgoParallelNode, 63000 + GinkgoParallelNode}

NoMapping == [p \in ExtPorts |-> <<>>]

NoLRP == [serverId |-> <<>>, port |-> 0, routes |-> {}]

IdleRoute ==
    /\ scenario = "none"
    /\ tpc = "start"
    /\ receivers = {}
    /\ desired = NoMapping
    /\ active = NoMapping
    /\ rr = [p \in ExtPorts |-> 0]
    /\ lag = 0
    /\ lrp = NoLRP
    /\ probes = 0
    /\ lastConn = [port |-> 0, backend |-> 0]
    /\ responses = <<>>
    /\ served = <<>>

(* --- the system under test --- *)

\* the sample receiver answers a message with its server id, ":" and the message
Echo(serverId, message) == serverId \o <<":">> \o message

BackendUp(b) == \E r \in receivers : r.port = b

ServerIdAt(b) == (CHOOSE r \in receivers : r.port = b).id

\* POST /v0/external_ports: the mapping is accepted (200) and applied later
RouterAccept(req) == [desired EXCEPT ![req.ExternalPort] = req.Backends]

\* the proxy is reconfigured with the accepted mappings
RouterApply ==
    /\ active # desired
    /\ active' = desired
    /\ rr' = [p \in ExtPorts |-> 0]
    /\ lag' = 0
    /\ UNCHANGED <<scenario, tpc, receivers, desired, lrp, probes, lastConn, responses, served>>

\* the client lets d seconds pass; an accepted mapping is applied within RouterLatency
Wait(d) ==
    /\ active = desired \/ lag + d <= RouterLatency
    /\ lag' = IF active = desired THEN 0 ELSE lag + d

\* a port with no backends is not listened on
RouterListens(port) == active[port] # <<>>

\* connections to a port go to its backends in turn
RouterPick(port) == active[port][(rr[port] % Len(active[port])) + 1]

\* the router forwards a new connection on port
RouterConnect(port) ==
    /\ rr' = [rr EXCEPT ![port] = (@ + 1) % Len(active[port])]
    /\ lastConn' = [port |-> port, backend |-> RouterPick(port)]

\* the emitter turns the TCP routes of a running LRP into mappings
EmitterRoutes(routes) ==
    [p \in ExtPorts |->
        IF \E r \in routes : r.ExternalPort = p
        THEN <<(CHOOSE r \in routes : r.ExternalPort = p).ContainerPort>>
        ELSE <<>>]

\* helpers.CreateDesiredLRP: one instance of the sample receiver with one TCP route
CreateDesiredLRP(externalPort, containerPort, serverId) ==
    [serverId |-> serverId, port |-> containerPort,
     routes |-> {[ExternalPort |-> externalPort, ContainerPort |-> containerPort]}]

\* helpers.UpdateDesiredLRP: the update carries the new TCP route
UpdateDesiredLRP(externalPort, containerPort) ==
    [routes |-> {[ExternalPort |-> externalPort, ContainerPort |-> containerPort]}]

(* --- site.go --- *)

\* the mapping request configureMapping posts
configureMappingFirstBackend(externalPort, backendPorts) ==
    [ExternalPort |-> externalPort, Backends |-> <<backendPorts[1]>>]

configureMapping(externalPort, backendPorts) ==
    [ExternalPort |-> externalPort, Backends |-> backendPorts]

createDesiredLRPSecondRouteOtherPort(extPort1, extPort2, receiverPort1, serverId) ==
    [CreateDesiredLRP(extPort1, receiverPort1, ServerId1) EXCEPT
        !.routes = {[ExternalPort |-> extPort1, ContainerPort |-> receiverPort1],
                    [ExternalPort |-> extPort2, ContainerPort |-> receiverPort1 + 1]}]

\* the LRP is created with the outer serverId1; its routes are replaced by
\* route1 and route2, both to the same container port
createDesiredLRPTwoExternalPorts(extPort1, extPort2, receiverPort1, serverId) ==
    [CreateDesiredLRP(extPort1, receiverPort1, ServerId1) EXCEPT
        !.routes = {[ExternalPort |-> extPort1, ContainerPort |-> receiverPort1],
                    [ExternalPort |-> extPort2, ContainerPort |-> receiverPort1]}]

\* response[0:count] of a Read into ResponseSize bytes
ReadUpTo(n, data) == SubSeq(data, 1, IF Len(data) < n THEN Len(data) ELSE n)

\* BeforeEach of each Describe
BeforeEach ==
    /\ tpc = "start"
    /\ CASE scenario \in {"routes", "loadbalance"} ->
              \* spinupTcpReceiver twice
              /\ receivers' = {[port |-> sampleReceiverPort1, id |-> ServerId1],
                               [port |-> sampleReceiverPort2, id |-> ServerId2]}
              /\ tpc' = "configure1"
              /\ UNCHANGED <<desired, lrp>>
         [] scenario = "twoports" ->
              \* bbsClient.DesireLRP(createDesiredLRPTwoExternalPorts(...))
              LET l == createDesiredLRPTwoExternalPorts(externalPort1, externalPort2,
                                                        sampleReceiverPort1, ServerId1)
              IN /\ lrp' = l
                 /\ receivers' = {[port |-> l.port, id |-> l.serverId]}
                 /\ desired' = EmitterRoutes(l.routes)
                 /\ tpc' = "verify1"
         [] scenario = "updateport" ->
              \* bbsClient.DesireLRP(helpers.CreateDesiredLRP(...))
              LET l == CreateDesiredLRP(externalPort1, sampleReceiverPort1, ServerId1)
              IN /\ lrp' = l
                 /\ receivers' = {[port |-> l.port, id |-> l.serverId]}
                 /\ desired' = EmitterRoutes(l.routes)
                 /\ tpc' = "verify1"
    /\ UNCHANGED <<scenario, active, rr, lag, probes, lastConn, responses, served>>

\* configureMapping(externalPort1, ...) of the It blocks
SecondBackends == <<sampleReceiverPort2>>

Configure ==
    /\ tpc \in {"configure1", "configure2"}
    /\ LET backendPorts ==
             IF scenario = "loadbalance"
             THEN <<sampleReceiverPort1, sampleReceiverPort2>>
             ELSE IF tpc = "configure1" THEN <<sampleReceiverPort1>> ELSE SecondBackends
       IN desired' = RouterAccept(configureMapping(externalPort1, backendPorts))
    /\ tpc' = IF scenario = "loadbalance" THEN "probe"
              ELSE IF tpc = "configure1" THEN "verify1" ELSE "verify2"
    /\ UNCHANGED <<scenario, receivers, active, rr, lag, lrp, probes, lastConn,
                   responses, served>>

\* the port the second verifyConnection of "updateport" dials
PortAfterUpdateStale == externalPort1

PortAfterUpdate == externalPort1Updated

\* the arguments of the k-th verifyConnection of the It block
VerifyArgs(k) ==
    CASE scenario = "routes" ->
            [externalPort |-> externalPort1, serverId |-> IF k = 1 THEN ServerId1 ELSE ServerId2]
      [] scenario = "twoports" ->
            [externalPort |-> IF k = 1 THEN externalPort1 ELSE externalPort2,
             serverId |-> ServerId1]
      [] scenario = "updateport" ->
            [externalPort |-> IF k = 1 THEN externalPort1 ELSE PortAfterUpdate,
             serverId |-> ServerId1]

\* the It block calls verifyConnection
CallVerify ==
    /\ tpc \in {"verify1", "verify2"}
    /\ LET a == VerifyArgs(IF tpc = "verify1" THEN 1 ELSE 2)
       IN VerifyStart(a.externalPort, a.serverId)
    /\ tpc' = IF tpc = "verify1" THEN "verifying1" ELSE "verifying2"
    /\ UNCHANGED <<scenario, receivers, desired, active, rr, lag, lrp, probes,
                   lastConn, responses, served>>

\* verifyConnection is over: it returned, or its assertion failed the spec
VerifyOver ==
    /\ tpc \in {"verifying1", "verifying2"}
    /\ vpc \in {"passed", "failed"}
    /\ IF vpc = "passed"
       THEN /\ VerifyReturn
            /\ served' = Append(served, [port |-> vargs.externalPort,
                                         serverId |-> vargs.serverId,
                                         backend |-> lastConn.backend])
            /\ tpc' = IF tpc = "verifying2" THEN "after"
                      ELSE CASE scenario = "routes"     -> "configure2"
                             [] scenario = "twoports"   -> "verify2"
                             [] scenario = "updateport" -> "update"
       ELSE /\ tpc' = "failed"
            /\ UNCHANGED <<verifyVars, served>>
    /\ UNCHANGED <<scenario, receivers, desired, active, rr, lag, lrp, probes,
                   lastConn, responses>>

\* bbsClient.UpdateDesiredLRP(processGuid, helpers.UpdateDesiredLRP(...))
UpdateLRP ==
    /\ tpc = "update"
    /\ LET u == UpdateDesiredLRP(externalPort1Updated, sampleReceiverPort1)
       IN /\ lrp' = [lrp EXCEPT !.routes = u.routes]
          /\ desired' = EmitterRoutes(u.routes)
    /\ tpc' = "verify2"
    /\ UNCHANGED <<scenario, receivers, active, rr, lag, probes, lastConn, responses, served>>

\* Eventually(func() error { net.Dial; Close }, 20 s, 1 s).ShouldNot(HaveOccurred())
Probe ==
    /\ tpc = "probe"
    /\ IF RouterListens(externalPort1)
       THEN /\ RouterConnect(externalPort1)
            /\ tpc' = "send1"
            /\ UNCHANGED <<probes, lag>>
       ELSE IF probes * ProbeInterval < ProbeTimeout
            THEN /\ Wait(ProbeInterval)
                 /\ probes' = probes + 1
                 /\ UNCHANGED <<tpc, rr, lastConn>>
            ELSE /\ tpc' = "failed"
                 /\ UNCHANGED <<probes, lag, rr, lastConn>>
    /\ UNCHANGED <<scenario, receivers, desired, active, lrp, responses, served>>

\* conn, response := sendAndReceive(address): dial, write "Hello", read
sendAndReceive ==
    /\ tpc \in {"send1", "send2"}
    /\ IF RouterListens(externalPort1) /\ BackendUp(RouterPick(externalPort1))
       THEN /\ RouterConnect(externalPort1)
            /\ responses' = Append(responses,
                                   ReadUpTo(ResponseSize,
                                            Echo(ServerIdAt(RouterPick(externalPort1)),
                                                 <<"Hello">>)))
            /\ tpc' = IF tpc = "send1" THEN "send2" ELSE "expect"
       ELSE /\ tpc' = "failed"
            /\ UNCHANGED <<rr, lastConn, responses>>
    /\ UNCHANGED <<scenario, receivers, desired, active, lag, lrp, probes, served>>

\* Expect(response1).ShouldNot(Equal(response2)), then both connections are closed
ExpectDifferent ==
    /\ tpc = "expect"
    /\ tpc' = IF responses[1] # responses[2] THEN "after" ELSE "failed"
    /\ UNCHANGED <<scenario, receivers, desired, active, rr, lag, lrp, probes,
                   lastConn, responses, served>>

\* AfterEach: tearDownTcpReceiver twice, or bbsClient.RemoveDesiredLRP
AfterEach ==
    /\ tpc = "after"
    /\ tpc' = "done"
    /\ receivers' = {}
    /\ IF scenario \in {"twoports", "updateport"}
       THEN lrp' = NoLRP /\ desired' = NoMapping
       ELSE UNCHANGED <<lrp, desired>>
    /\ UNCHANGED <<scenario, active, rr, lag, probes, lastConn, responses, served>>

(* --- checkConnection against the router --- *)

RouteCheckSleep(g) ==
    /\ CheckSleep(g)
    /\ Wait(CheckSleepSeconds)
    /\ UNCHANGED <<scenario, tpc, receivers, desired, active, rr, lrp, probes, lastConn,
                   responses, served>>

RouteCheckDial(g) ==
    /\ IF RouterListens(vargs.externalPort)
       THEN /\ CheckDial(g, FALSE, RouterPick(vargs.externalPort))
            /\ RouterConnect(vargs.externalPort)
       ELSE /\ CheckDial(g, TRUE, 0)
            /\ UNCHANGED <<rr, lastConn>>
    /\ UNCHANGED <<scenario, tpc, receivers, desired, active, lag, lrp, probes,
                   responses, served>>

RouteCheckRead(g) ==
    IF BackendUp(chk[g].conn)
    THEN CheckRead(g, FALSE, Echo(ServerIdAt(chk[g].conn), chk[g].message))
    ELSE CheckRead(g, TRUE, <<>>)

----------------------------------------------------------------------------
(* The routing-api stats specs: the routing API, its statsd client, the fake
   statsd server of BeforeEach and the It blocks that read fakeStatsdChan *)

\* fakeStatsdChan = make(chan string, 1)
StatsChanCap == 1

\* the statsd line protocol: <prefix>.<stat>:<value>|g
StatLine(stat, value) == "routing_api." \o stat \o ":" \o value \o "|g"

\* a gauge delta carries its sign, an absolute gauge does not
GaugeDelta(stat, d) == StatLine(stat, (IF d >= 0 THEN "+" ELSE "") \o ToString(d))

Gauge(stat, v) == StatLine(stat, ToString(v))

\* the bytes left in the 1000-byte buffer after the datagram: NULs without a
\* newline, which the scanner returns as its last token
Padding == "\\x00.."

\* bufio.NewScanner(bytes.NewBuffer(buffer)) over the whole buffer: one token
\* per newline-terminated line of the datagram, then the padding
ScanBuffer(datagram) == datagram \o <<Padding>>

\* the routes ReadRoutes lists: none when the Get or an Unmarshal fails
ReadRoutesNone(st, getErr) == {}

ReadRoutes(st, getErr) ==
    IF getErr \/ (\E k \in Keys : st[k].exists /\ ~st[k].ok)
    THEN {}
    ELSE {k \in Keys : st[k].exists}

\* route1 = models.NewRoute("a.b.c", 33, "1.1.1.1", "potato", "", 55)
route1 == [key |-> "route1", ttl |-> Route1TTL]

\* routeExpire := models.NewRoute("z.a.k", 63, "42.42.42.42", "Tomato", "", 1)
routeExpire == [key |-> "routeExpire", ttl |-> RouteExpireTTL]

StatsScenarios == {"subscribe", "periodic", "create", "delete", "expire"}

Step(op, key, ttl, text) == [op |-> op, key |-> key, ttl |-> ttl, text |-> text]

SubscribeStep == Step("subscribe", "", 0, "")

UpsertStep(r) == Step("upsert", r.key, r.ttl, "")

DeleteStep(r) == Step("delete", r.key, 0, "")

\* Eventually(fakeStatsdChan).Should(Receive(Equal(text)))
ExpectStep(text) == Step("expect", "", 0, text)

ScriptThreeSubscriptions(sc) ==
    <<SubscribeStep, SubscribeStep, SubscribeStep,
      ExpectStep("routing_api.total_http_subscriptions:+1|g"),
      ExpectStep("routing_api.total_http_subscriptions:+1|g"),
      ExpectStep("routing_api.total_http_subscriptions:+1|g"),
      ExpectStep("routing_api.total_http_subscriptions:+1|g")>>

\* the statements of each It block, in order
Script(sc) ==
    CASE sc = "subscribe" ->
            <<SubscribeStep, SubscribeStep, SubscribeStep, SubscribeStep,
              ExpectStep("routing_api.total_http_subscriptions:+1|g"),
              ExpectStep("routing_api.total_http_subscriptions:+1|g"),
              ExpectStep("routing_api.total_http_subscriptions:+1|g"),
              ExpectStep("routing_api.total_http_subscriptions:+1|g")>>
      [] sc = "periodic" ->
            <<ExpectStep("routing_api.total_http_routes:1|g"),
              ExpectStep("routing_api.total_http_routes:1|g")>>
      [] sc = "create" ->
            <<UpsertStep(route1),
              ExpectStep("routing_api.total_http_routes:+1|g")>>
      [] sc = "delete" ->
            <<UpsertStep(route1),
              DeleteStep(route1),
              ExpectStep("routing_api.total_http_routes:+1|g"),
              ExpectStep("routing_api.total_http_routes:-1|g")>>
      [] OTHER ->
            <<UpsertStep(routeExpire),
              ExpectStep("routing_api.total_http_routes:+1|g"),
              ExpectStep("routing_api.total_http_routes:-1|g")>>

\* the statement the It block is at
AtStep(op) ==
    /\ sphase = "it"
    /\ spc <= Len(Script(sscenario))
    /\ Script(sscenario)[spc].op = op

CurStep == Script(sscenario)[spc]

\* the It block and the client; the routing API; the fake statsd server
clientVars == <<sscenario, sphase, spc, calling, subs>>

wireVars == <<udp, sockClosed, reader, fakeStatsdChan>>

\* no stats spec is running
IdleStats ==
    /\ sscenario = "none"
    /\ sphase = "done"
    /\ spc = 1
    /\ calling = FALSE
    /\ apiUp = FALSE
    /\ watchQ = <<>>
    /\ handlers = 0
    /\ subs = 0
    /\ statsBuf = <<>>
    /\ sent = <<>>
    /\ udp = <<>>
    /\ sockClosed = FALSE
    /\ reader = [pc |-> "none", tokens |-> <<>>]
    /\ fakeStatsdChan = [buf |-> <<>>, closed |-> FALSE]

----------------------------------------------------------------------------
(* The routing API process *)

\* the event the watcher makes of a change of one key (db.NewEvent)
EventOf(k, before, after, expired) ==
    [key |-> k,
     type |-> IF after.exists
              THEN IF before.exists THEN "Update" ELSE "Create"
              ELSE IF expired THEN "Expire" ELSE "Delete"]

\* what a route event adds to total_http_routes
StatsDelta(type) ==
    IF type = "Create" THEN 1 ELSE IF type = "Update" THEN 0 ELSE 0 - 1

\* the statsd client buffers a line; sent remembers it with its cause
Emit(text, key, type) ==
    /\ statsBuf' = Append(statsBuf, text)
    /\ sent' = Append(sent, [text |-> text, key |-> key, type |-> type])

\* etcd queues the event of a change for the watcher, while there is one
Notify(k, expired) ==
    watchQ' = IF apiUp /\ store'[k] # store[k]
              THEN Append(watchQ, EventOf(k, store[k], store'[k], expired))
              ELSE watchQ

\* the routing API has registered its own route
Registered == pc["s2"] = "done"

\* starting up, the routing API registers its own route
ApiRegisterSelf ==
    /\ apiUp
    /\ pc["s2"] = "idle"
    /\ SaveStart("s2", "self", SelfRouteTTL)
    /\ UNCHANGED statsVars

\* a SaveRoute in the routing API reads the key
ApiSaveGet(p) ==
    /\ apiUp
    /\ SaveGetOn(p, KeysGet(store[arg[p].key]), TRUE)
    /\ UNCHANGED statsVars

\* a SaveRoute in the routing API writes the key
ApiSaveSet(p) ==
    /\ apiUp
    /\ SaveSet(p)
    /\ Notify(arg[p].key, FALSE)
    /\ UNCHANGED <<clientVars, wireVars, apiUp, handlers, statsBuf, sent>>

\* etcd expires a route of the client
EtcdExpire(k) ==
    /\ Expire(k)
    /\ Notify(k, TRUE)
    /\ UNCHANGED <<clientVars, wireVars, apiUp, handlers, statsBuf, sent>>

\* the metrics reporter takes the next route event: a gauge delta
ReporterEvent ==
    /\ apiUp
    /\ watchQ # <<>>
    /\ LET e == Head(watchQ)
       IN Emit(GaugeDelta("total_http_routes", StatsDelta(e.type)), e.key, e.type)
    /\ watchQ' = Tail(watchQ)
    /\ UNCHANGED <<saveVars, clientVars, wireVars, apiUp, handlers>>

\* the lines of sent with this text
Count(text) == Cardinality({j \in DOMAIN sent : sent[j].text = text})

\* the reports the ticker has caused
Ticks == Cardinality({j \in DOMAIN sent : sent[j].type = "Tick"})

\* the routing API has nothing left to report or to send
Quiet == watchQ = <<>> /\ handlers = 0 /\ statsBuf = <<>>

\* the metrics reporter's ticker: the absolute number of routes. The interval
\* is long against the handling of an event: the ticker fires when the
\* reports of the events so far are out.
ReporterTick ==
    /\ apiUp
    /\ Registered
    /\ Quiet
    /\ Ticks < MaxTicks
    /\ Emit(Gauge("total_http_routes", Cardinality(ReadRoutes(store, FALSE))), "", "Tick")
    /\ UNCHANGED <<saveVars, clientVars, wireVars, apiUp, watchQ, handlers>>

\* the handler of one event stream reports its subscription
ApiSubscribed ==
    /\ apiUp
    /\ handlers > 0
    /\ handlers' = handlers - 1
    /\ Emit(GaugeDelta("total_http_subscriptions", 1), "", "Subscribe")
    /\ UNCHANGED <<saveVars, clientVars, wireVars, apiUp, watchQ>>

\* the statsd client flushes its buffer: one datagram, one line per metric
Flush ==
    /\ apiUp
    /\ statsBuf # <<>>
    /\ udp' = IF sockClosed THEN udp ELSE Append(udp, statsBuf)
    /\ statsBuf' = <<>>
    /\ UNCHANGED <<saveVars, clientVars, apiUp, watchQ, handlers, sent,
                   sockClosed, reader, fakeStatsdChan>>

----------------------------------------------------------------------------
(* The goroutine of BeforeEach that reads the fake statsd server *)

\* fakeStatsdServer.Read(buffer) returns a datagram; a scanner is made of it
ReaderRead ==
    /\ reader.pc = "read"
    /\ ~sockClosed
    /\ udp # <<>>
    /\ reader' = [pc |-> "send", tokens |-> ScanBuffer(Head(udp))]
    /\ udp' = Tail(udp)
    /\ UNCHANGED <<saveVars, clientVars, apiUp, watchQ, handlers, statsBuf, sent,
                   sockClosed, fakeStatsdChan>>

\* statsChan <- scanner.Text(): blocks while the channel is full
ReaderSend ==
    /\ reader.pc = "send"
    /\ Len(fakeStatsdChan.buf) < StatsChanCap
    /\ fakeStatsdChan' = [fakeStatsdChan EXCEPT !.buf = Append(@, Head(reader.tokens))]
    /\ reader' = [pc |-> IF Len(reader.tokens) = 1 THEN "read" ELSE "send",
                  tokens |-> Tail(reader.tokens)]
    /\ UNCHANGED <<saveVars, clientVars, apiUp, watchQ, handlers, statsBuf, sent,
                   udp, sockClosed>>

\* Read returns an error: close(statsChan); return
ReaderReadErr ==
    /\ reader.pc = "read"
    /\ reader' = [reader EXCEPT !.pc = "returned"]
    /\ fakeStatsdChan' = [fakeStatsdChan EXCEPT !.closed = TRUE]
    /\ UNCHANGED <<saveVars, clientVars, apiUp, watchQ, handlers, statsBuf, sent,
                   udp, sockClosed>>

\* the error is that the socket was closed
ReaderClosed == sockClosed /\ ReaderReadErr

\* the error is the read deadline set in BeforeEach
ReaderDeadline == ~sockClosed /\ ReaderReadErr

----------------------------------------------------------------------------
(* BeforeEach, the It blocks, AfterEach *)

\* the routing API is started, the fake statsd server listens, the goroutine runs
StatsBeforeEach ==
    /\ sphase = "before"
    /\ sphase' = "sleep"
    /\ apiUp' = TRUE
    /\ reader' = [pc |-> "read", tokens |-> <<>>]
    /\ UNCHANGED <<saveVars, sscenario, spc, calling, subs, watchQ, handlers,
                   statsBuf, sent, udp, sockClosed, fakeStatsdChan>>

\* time.Sleep(1000 * time.Millisecond), in which the routing API has started up
StatsSleep ==
    /\ sphase = "sleep"
    /\ Registered
    /\ sphase' = "it"
    /\ UNCHANGED <<saveVars, sscenario, spc, calling, subs, wireVars, apiUp, watchQ,
                   handlers, statsBuf, sent>>

\* client.UpsertRoutes: the routing API starts SaveRoute
ClientUpsert ==
    /\ AtStep("upsert")
    /\ ~calling
    /\ apiUp
    /\ SaveStart("s1", CurStep.key, CurStep.ttl)
    /\ calling' = TRUE
    /\ UNCHANGED <<sscenario, sphase, spc, subs, wireVars, apiUp, watchQ,
                   handlers, statsBuf, sent>>

\* UpsertRoutes returns; the It blocks do not look at its error
ClientUpsertReturn ==
    /\ AtStep("upsert")
    /\ calling
    /\ pc["s1"] = "done"
    /\ calling' = FALSE
    /\ spc' = spc + 1
    /\ UNCHANGED <<saveVars, sscenario, sphase, subs, wireVars, apiUp, watchQ,
                   handlers, statsBuf, sent>>

\* client.DeleteRoutes; the It block does not look at its error
ClientDelete ==
    /\ AtStep("delete")
    /\ apiUp
    /\ DeleteRoute(CurStep.key)
    /\ Notify(CurStep.key, FALSE)
    /\ spc' = spc + 1
    /\ UNCHANGED <<sscenario, sphase, calling, subs, wireVars, apiUp,
                   handlers, statsBuf, sent>>

\* client.SubscribeToEvents: the routing API starts a handler for the stream
ClientSubscribe ==
    /\ AtStep("subscribe")
    /\ apiUp
    /\ subs' = subs + 1
    /\ handlers' = handlers + 1
    /\ spc' = spc + 1
    /\ UNCHANGED <<saveVars, sscenario, sphase, calling, wireVars, apiUp, watchQ,
                   statsBuf, sent>>

\* one poll of Eventually(fakeStatsdChan).Should(Receive(Equal(text))): a line
\* that is not the expected one is dropped; a closed channel fails the spec
ExpectReceive ==
    /\ AtStep("expect")
    /\ IF fakeStatsdChan.buf # <<>>
       THEN /\ fakeStatsdChan' = [fakeStatsdChan EXCEPT !.buf = Tail(@)]
            /\ spc' = IF Head(fakeStatsdChan.buf) = CurStep.text THEN spc + 1 ELSE spc
            /\ UNCHANGED sphase
       ELSE /\ fakeStatsdChan.closed
            /\ sphase' = "failed"
            /\ UNCHANGED <<fakeStatsdChan, spc>>
    /\ UNCHANGED <<saveVars, sscenario, calling, subs, udp, sockClosed, reader, apiUp,
                   watchQ, handlers, statsBuf, sent>>

\* the It block has run all its statements
Passed == sphase = "it" /\ spc > Len(Script(sscenario))

\* the deferred eventStream.Close() calls, then AfterEach:
\* ginkgomon.Kill(routingAPIProcess); fakeStatsdServer.Close()
StatsAfterEach ==
    /\ Passed \/ sphase = "failed"
    /\ sphase' = IF Passed THEN "passed" ELSE "done"
    /\ subs' = 0
    /\ apiUp' = FALSE
    /\ sockClosed' = TRUE
    /\ UNCHANGED <<saveVars, sscenario, spc, calling, watchQ, handlers, statsBuf,
                   sent, udp, reader, fakeStatsdChan>>

----------------------------------------------------------------------------
(* The config loaders: LoadConfig of the router helpers (reads address, port,
   bbs_api_url) and LoadConfig of the routing helpers (reads oauth, addresses
   and embeds the Config of cf-test-helpers) *)

Loaders == {"router", "routing"}

EnvVars == {"CONFIG", "ROUTER_API_CONFIG"}

Paths == {"router_config.json", "integration_config.json"}

\* const DEFAULT_BBS_API_URL
DEFAULT_BBS_API_URL == "http://bbs.service.cf.internal:8889"

\* what a path holds: nothing (os.Open fails), bytes that are no JSON object
\* (Decode fails), or a JSON object; a key the object lacks is its zero value
FileContent(kind, address, port, bbs, diego, oauth, addresses) ==
    [kind |-> kind, address |-> address, port |-> port, bbs_api_url |-> bbs,
     diego_api_url |-> diego, oauth |-> oauth, addresses |-> addresses]

NoFile == FileContent("absent", "", 0, "", "", FALSE, <<>>)

NotJson == FileContent("garbage", "", 0, "", "", FALSE, <<>>)

\* router_config.json as the README writes it, and its variations
RouterFiles ==
    {FileContent("json", a, p, b, d, FALSE, <<>>) :
        a \in {"", "10.244.8.2"}, p \in {0, 9999},
        b \in {"", "http://10.244.16.6:8889"}, d \in {"", "http://10.244.16.6:8888"}}

\* the integration config of the routing acceptance tests, and its variations
RoutingFiles ==
    {FileContent("json", "", 0, "", "", o, as) :
        o \in BOOLEAN, as \in {<<>>, <<"10.244.14.2">>, <<"10.244.14.2", "10.244.14.3">>}}

\* the answers of config.LoadConfig() of cf-test-helpers: it panics, or it
\* returns a Config
LibAnswers ==
    {[panics |-> TRUE, AppsDomain |-> "", ApiEndpoint |-> ""]} \cup
    {[panics |-> FALSE, AppsDomain |-> d, ApiEndpoint |-> a] :
        d \in {"", "bosh-lite.com"}, a \in {"", "api.bosh-lite.com"}}

\* the zero value of RouterApiConfig and of RoutingConfig, in one record
ZeroConfig ==
    [Address |-> "", Port |-> 0, BBSAddress |-> "", OAuth |-> FALSE, Addresses |-> <<>>,
     AppsDomain |-> "", ApiEndpoint |-> "", RoutingApiUrl |-> ""]

\* no loader is running
IdleConfig ==
    /\ loader = "none"
    /\ env = [v \in EnvVars |-> ""]
    /\ files = [p \in Paths |-> NoFile]
    /\ lib = [panics |-> TRUE, AppsDomain |-> "", ApiEndpoint |-> ""]
    /\ cpc = "returned"
    /\ path = ""
    /\ opened = <<>>
    /\ loadedConfig = ZeroConfig
    /\ panicked = ""

\* the variable configPath reads: os.Getenv("ROUTER_API_CONFIG") in the router
\* helpers, os.Getenv("CONFIG") in the routing helpers
ConfigVarAlwaysRouterApi(l) == "ROUTER_API_CONFIG"

ConfigVar(l) == IF l = "router" THEN "ROUTER_API_CONFIG" ELSE "CONFIG"

\* the text configPath panics with
ConfigPathPanic(l) ==
    IF l = "router"
    THEN "Must set $ROUTER_API_CONFIG to point to an integration config .json file."
    ELSE "Must set $CONFIG to point to an integration config .json file."

Panic(msg) ==
    /\ cpc' = "panicked"
    /\ panicked' = msg

\* configPath()
configPath ==
    /\ cpc = "configPath"
    /\ IF env[ConfigVar(loader)] = ""
       THEN Panic(ConfigPathPanic(loader)) /\ UNCHANGED path
       ELSE /\ path' = env[ConfigVar(loader)]
            /\ cpc' = "open"
            /\ UNCHANGED panicked
    /\ UNCHANGED <<loader, env, files, lib, opened, loadedConfig>>

\* configFile, err := os.Open(path)
OpenFile ==
    /\ cpc = "open"
    /\ opened' = Append(opened, path)
    /\ IF path \notin Paths \/ files[path].kind = "absent"
       THEN Panic("open: no such file or directory")
       ELSE cpc' = "decode" /\ UNCHANGED panicked
    /\ UNCHANGED <<loader, env, files, lib, path, loadedConfig>>

\* the value json Decode fills in: the keys of the struct's tags
Decoded(l, f) ==
    IF l = "router"
    THEN [ZeroConfig EXCEPT !.Address = f.address, !.Port = f.port,
                            !.BBSAddress = f.bbs_api_url]
    ELSE [ZeroConfig EXCEPT !.OAuth = f.oauth, !.Addresses = f.addresses]

\* err = decoder.Decode(&config); return config
DecodeFile ==
    /\ cpc = "decode"
    /\ IF files[path].kind = "garbage"
       THEN Panic("invalid character") /\ UNCHANGED loadedConfig
       ELSE /\ loadedConfig' = Decoded(loader, files[path])
            /\ cpc' = IF loader = "router" THEN "validate" ELSE "lib"
            /\ UNCHANGED panicked
    /\ UNCHANGED <<loader, env, files, lib, path, opened>>

\* loadedConfig.Config = config.LoadConfig()
LibLoadConfig ==
    /\ cpc = "lib"
    /\ IF lib.panics
       THEN Panic("config.LoadConfig") /\ UNCHANGED loadedConfig
       ELSE /\ loadedConfig' = [loadedConfig EXCEPT !.AppsDomain = lib.AppsDomain,
                                                    !.ApiEndpoint = lib.ApiEndpoint]
            /\ cpc' = "validate"
            /\ UNCHANGED panicked
    /\ UNCHANGED <<loader, env, files, lib, path, opened>>

\* the checks of the routing helpers' LoadConfig: the panic value, "" if none
MissingAddressesFirst(c) ==
    IF Len(c.Addresses) = 0 THEN "missing configuration 'addresses'"
    ELSE IF ~c.OAuth THEN "missing configuration oauth"
    ELSE IF c.AppsDomain = "" THEN "missing configuration apps_domain"
    ELSE IF c.ApiEndpoint = "" THEN "missing configuration api"
    ELSE ""

Missing(c) ==
    IF ~c.OAuth THEN "missing configuration oauth"
    ELSE IF Len(c.Addresses) = 0 THEN "missing configuration 'addresses'"
    ELSE IF c.AppsDomain = "" THEN "missing configuration apps_domain"
    ELSE IF c.ApiEndpoint = "" THEN "missing configuration api"
    ELSE ""

RouterMissingPortFirst(c) ==
    IF c.Port = 0 THEN "missing configuration 'port'"
    ELSE IF c.Address = "" THEN "missing configuration 'address'"
    ELSE ""

\* the checks of the router helpers' LoadConfig
RouterMissing(c) ==
    IF c.Address = "" THEN "missing configuration 'address'"
    ELSE IF c.Port = 0 THEN "missing configuration 'port'"
    ELSE ""

CompletedPlainHttp(l, c) ==
    IF l = "router"
    THEN [c EXCEPT !.BBSAddress = IF c.BBSAddress = "" THEN DEFAULT_BBS_API_URL ELSE @]
    ELSE [c EXCEPT !.RoutingApiUrl = "http://" \o c.ApiEndpoint]

\* what LoadConfig returns when no check panics
Completed(l, c) ==
    IF l = "router"
    THEN [c EXCEPT !.BBSAddress = IF c.BBSAddress = "" THEN DEFAULT_BBS_API_URL ELSE @]
    ELSE [c EXCEPT !.RoutingApiUrl = "https://" \o c.ApiEndpoint]

\* the address the smoke test sends its GETs to:
\* if !routingConfig.LBConfigured { addr = routingConfig.Addresses[0] } else { addr = domainName }
TargetAddr(c, lb, domain) ==
    IF ~lb THEN c.Addresses[1] ELSE domain

\* the checks, then the return
Validate ==
    /\ cpc = "validate"
    /\ LET msg == IF loader = "router" THEN RouterMissing(loadedConfig)
                  ELSE Missing(loadedConfig)
       IN IF msg # ""
          THEN Panic(msg) /\ UNCHANGED loadedConfig
          ELSE /\ loadedConfig' = Completed(loader, loadedConfig)
               /\ cpc' = "returned"
               /\ UNCHANGED panicked
    /\ UNCHANGED <<loader, env, files, lib, path, opened>>

----------------------------------------------------------------------------
(* The smoke test: an app gets a random TCP route, is started, is reached by
   HTTP GET on address:port, and is not reached any more after the route is
   deleted. Cloud controller, app and TCP router are the platform under test. *)

\* the ports MapRandomTcpRouteToApp may reserve
RandomPorts == {1024, 1025}

\* http.StatusOK, http.StatusBadGateway
StatusOK == 200

StatusBadGateway == 502

NoResponse == [err |-> FALSE, status |-> 0]

NoUrl == [addr |-> "", port |-> 0]

\* no smoke test is running
IdleSmoke ==
    /\ smokeVersion = "none"
    /\ lbConfigured = FALSE
    /\ mpc = "done"
    /\ appStarted = FALSE
    /\ ccRoute = 0
    /\ routerTable = {}
    /\ appUrl = NoUrl
    /\ resp1 = NoResponse
    /\ resp2 = NoResponse

\* the TCP router forwards the port to the running app
Serving(p) == p \in routerTable /\ appStarted

\* the routes the router is to have: the route of a started app
DesiredTable == IF appStarted /\ ccRoute # 0 THEN {ccRoute} ELSE {}

\* the TCP router takes over the routes of the cloud controller
RouterSync ==
    /\ routerTable # DesiredTable
    /\ routerTable' = DesiredTable
    /\ UNCHANGED <<smokeVersion, lbConfigured, mpc, appStarted, ccRoute, appUrl, resp1, resp2>>

\* the answers an HTTP GET to addr:port can get: 200 from the app when the
\* router forwards the port, else an error or the 502 of a gateway
GetAnswers(u) ==
    IF Serving(u.port)
    THEN {[err |-> FALSE, status |-> StatusOK]}
    ELSE {[err |-> TRUE, status |-> 0], [err |-> FALSE, status |-> StatusBadGateway]}

\* routing_helpers.PushAppNoStart(...); routing_helpers.EnableDiego(...)
PushAppNoStart ==
    /\ mpc = "push"
    /\ mpc' = "map"
    /\ UNCHANGED <<smokeVersion, lbConfigured, appStarted, ccRoute, routerTable, appUrl,
                   resp1, resp2>>

\* routing_helpers.MapRandomTcpRouteToApp(appName, domainName, DEFAULT_TIMEOUT)
MapRandomTcpRouteToApp ==
    /\ mpc = "map"
    /\ \E p \in RandomPorts : ccRoute' = p
    /\ mpc' = "start"
    /\ UNCHANGED <<smokeVersion, lbConfigured, appStarted, routerTable, appUrl, resp1, resp2>>

\* routing_helpers.StartApp(appName, DEFAULT_TIMEOUT)
StartApp ==
    /\ mpc = "start"
    /\ appStarted' = TRUE
    /\ mpc' = "port"
    /\ UNCHANGED <<smokeVersion, lbConfigured, ccRoute, routerTable, appUrl, resp1, resp2>>

\* the address the GETs go to: the domain name in the early version; in the
\* late one Addresses[0] unless a load balancer is configured
Addr ==
    IF smokeVersion = "late" /\ ~lbConfigured THEN "Addresses[0]" ELSE "domainName"

\* port := GetPortFromAppsInfo(appName, domainName); appUrl := "http://addr:port"
GetPortFromAppsInfo ==
    /\ mpc = "port"
    /\ appUrl' = [addr |-> Addr, port |-> ccRoute]
    /\ mpc' = "get1"
    /\ UNCHANGED <<smokeVersion, lbConfigured, appStarted, ccRoute, routerTable, resp1, resp2>>

\* the statement after the first Expect(resp.StatusCode).To(Equal(http.StatusOK))
AfterFirstGetSecondGet == "get2"

AfterFirstGet == "delete"

\* resp, err := http.Get(appUrl); Expect(err).NotTo(HaveOccurred());
\* Expect(resp.StatusCode).To(Equal(http.StatusOK))
FirstGet ==
    /\ mpc = "get1"
    /\ \E r \in GetAnswers(appUrl) :
          /\ resp1' = r
          /\ mpc' = IF ~r.err /\ r.status = StatusOK THEN AfterFirstGet ELSE "failed"
    /\ UNCHANGED <<smokeVersion, lbConfigured, appStarted, ccRoute, routerTable, appUrl, resp2>>

\* routing_helpers.DeleteTcpRoute(domainName, port, DEFAULT_TIMEOUT)
DeleteTcpRoute ==
    /\ mpc = "delete"
    /\ ccRoute' = IF ccRoute = appUrl.port THEN 0 ELSE ccRoute
    /\ mpc' = "get2"
    /\ UNCHANGED <<smokeVersion, lbConfigured, appStarted, routerTable, appUrl, resp1, resp2>>

\* what the It block expects of the second GET: the early version a 502
\* without error, the late version an error
SecondExpectation(r) ==
    IF smokeVersion = "early"
    THEN ~r.err /\ r.status = StatusBadGateway
    ELSE r.err

\* the second GET to the same URL, and its Expect
SecondGet ==
    /\ mpc = "get2"
    /\ \E r \in GetAnswers(appUrl) :
          /\ resp2' = r
          /\ mpc' = IF SecondExpectation(r) THEN "passed" ELSE "failed"
    /\ UNCHANGED <<smokeVersion, lbConfigured, appStarted, ccRoute, routerTable, appUrl, resp1>>

\* AfterEach: routing_helpers.DeleteApp(appName, DEFAULT_TIMEOUT)
SmokeAfterEach ==
    /\ mpc \in {"passed", "failed"}
    /\ appStarted' = FALSE
    /\ ccRoute' = 0
    /\ mpc' = IF mpc = "passed" THEN "done" ELSE "doneFailed"
    /\ UNCHANGED <<smokeVersion, lbConfigured, routerTable, appUrl, resp1, resp2>>

----------------------------------------------------------------------------
(* The smoke test's BeforeEach and AfterEach: the shared TCP domain *)

\* the domains an operator may have made before the test runs
OperatorDomains == {"tcp.example.com", "other.example.com"}

\* fmt.Sprintf("%s.%s", generator.PrefixedRandomName("TCP", "DOMAIN"), AppsDomain)
RandomDomains == {"TCP-DOMAIN-1.apps.example.com", "TCP-DOMAIN-2.apps.example.com"}

\* no smoke test is running
IdleDomains ==
    /\ domVersion = "none"
    /\ tcpAppsDomain = ""
    /\ routingConfig = ""
    /\ domainName = ""
    /\ sharedDomains = {}
    /\ dpc = "done"
    /\ created = {}
    /\ deleted = {}

\* the variable the first statement of BeforeEach sets: the early version
\* declares a local routingConfig with :=, the late one assigns the
\* package-level variable
LoadedInto(version) == IF version = "early" THEN "local" ELSE "package"

\* BeforeEach. available: FetchToken and Routes succeed; groupFound:
\* GetRouterGroupName finds a router group; name: the random domain name
DomainBeforeEach(available, groupFound, name) ==
    /\ dpc = "before"
    /\ routingConfig' = IF LoadedInto(domVersion) = "package" THEN tcpAppsDomain ELSE routingConfig
    /\ IF ~available
       THEN /\ dpc' = "beforeFailed"
            /\ UNCHANGED <<domainName, sharedDomains, created>>
       ELSE IF tcpAppsDomain # ""
       THEN \* domainName = routingConfig.TcpAppDomain; VerifySharedDomain
            /\ domainName' = tcpAppsDomain
            /\ dpc' = IF tcpAppsDomain \in sharedDomains THEN "it" ELSE "beforeFailed"
            /\ UNCHANGED <<sharedDomains, created>>
       ELSE \* domainName = random name; GetRouterGroupName; CreateSharedDomain;
            \* VerifySharedDomain
            /\ domainName' = name
            /\ IF groupFound
               THEN /\ sharedDomains' = sharedDomains \cup {name}
                    /\ created' = created \cup {name}
                    /\ dpc' = "it"
               ELSE /\ dpc' = "beforeFailed"
                    /\ UNCHANGED <<sharedDomains, created>>
    /\ UNCHANGED <<domVersion, tcpAppsDomain, deleted>>

\* the It block passes or fails
DomainIt(passes) ==
    /\ dpc = "it"
    /\ dpc' = IF passes THEN "passed" ELSE "failed"
    /\ UNCHANGED <<domVersion, tcpAppsDomain, routingConfig, domainName, sharedDomains,
                   created, deleted>>

\* AfterEach, which also runs when BeforeEach failed:
\* if routingConfig.TcpAppDomain == "" { DeleteSharedDomain(domainName) }
DomainAfterEach ==
    /\ dpc \in {"passed", "failed", "beforeFailed"}
    /\ IF routingConfig = ""
       THEN /\ sharedDomains' = sharedDomains \ {domainName}
            /\ deleted' = deleted \cup (sharedDomains \cap {domainName})
       ELSE UNCHANGED <<sharedDomains, deleted>>
    /\ dpc' = "done"
    /\ UNCHANGED <<domVersion, tcpAppsDomain, routingConfig, domainName, created>>

----------------------------------------------------------------------------
(* The ports each parallel Ginkgo node derives from its node number *)

\* ginkgo -r -nodes=3 router
Nodes == 3

\* the Describe blocks that derive ports: the four of the Routing Test and the
\* stats test with its fake statsd server
PortBlocks == {"routes", "loadbalance", "twoports", "updateport", "stats"}

IdlePorts ==
    /\ running = [n \in 1..Nodes |-> "none"]
    /\ inUse = [n \in 1..Nodes |-> {}]

NodePortsNear(block, node) ==
    CASE block = "routes"      -> {60000 + node, 9000 + node, 9500 + node}
      [] block = "loadbalance" -> {61000 + node, 7000 + node, 7001 + node}
      [] block = "twoports"    -> {34500 + node, 12300 + node, 7000 + node}
      [] block = "updateport"  -> {62000 + node, 8000 + node}
      [] block = "stats"       -> {8125 + node}

\* the ports the BeforeEach of a block derives on a node
NodePorts(block, node) ==
    CASE block = "routes"      -> {60000 + node, 9000 + node, 9500 + node}
      [] block = "loadbalance" -> {61000 + node, 7000 + node, 7500 + node}
      [] block = "twoports"    -> {34500 + node, 12300 + node, 7000 + node}
      [] block = "updateport"  -> {62000 + node, 8000 + node}
      [] block = "stats"       -> {8125 + node}

\* a node starts a block: its BeforeEach derives the ports
PortsBeforeEach(node, block) ==
    /\ running[node] = "none"
    /\ running' = [running EXCEPT ![node] = block]
    /\ inUse' = [inUse EXCEPT ![node] = NodePorts(block, node)]

\* externalPort1 = 63000 + GinkgoParallelNode() in the It block that updates the LRP
PortsUpdate(node) ==
    /\ running[node] = "updateport"
    /\ running' = [running EXCEPT ![node] = "updated"]
    /\ inUse' = [inUse EXCEPT ![node] = @ \cup {63000 + node}]

\* the block is over on the node
PortsAfterEach(node) ==
    /\ running[node] # "none"
    /\ running' = [running EXCEPT ![node] = "none"]
    /\ inUse' = [inUse EXCEPT ![node] = {}]

----------------------------------------------------------------------------
(* GrabName: the router group name in the output of `cf router-groups` *)

\* the longest output given to GrabName
MaxLogLen == 6

\* a string is the sequence of its characters
LogChars == {"t", "c", "p", " ", "\n"}

NoGrab == [failed |-> FALSE, name |-> <<>>]

IdleGrab ==
    /\ logLines = <<>>
    /\ gpc = "returned"
    /\ grabbed = NoGrab

\* s[a..b]
Sub(s, a, b) == SubSeq(s, a, b)

\* the ends of the matches of ".*tcp" that start at position a: "tcp" ends
\* there and no newline lies between a and that "tcp"
MatchEnds(s, a) ==
    {b \in (a + 2)..Len(s) :
        /\ Sub(s, b - 2, b) = <<"t", "c", "p">>
        /\ \A k \in a..(b - 3) : s[k] # "\n"}

\* re.FindStringSubmatch(logLines) for ".*tcp": nil when nothing matches, else
\* the leftmost match, the longest of those that start there
FindStringSubmatch(s) ==
    LET starts == {a \in 1..Len(s) : MatchEnds(s, a) # {}}
    IN IF starts = {}
       THEN <<>>
       ELSE LET a == CHOOSE x \in starts : \A y \in starts : x <= y
                b == CHOOSE x \in MatchEnds(s, a) : \A y \in MatchEnds(s, a) : y <= x
            IN <<Sub(s, a, b)>>

\* strings.Split(m, " ")[0]: m up to its first space, all of m when it has none
FirstFieldOrAll(m) ==
    LET spaces == {k \in 1..Len(m) : m[k] = " "}
    IN IF spaces = {} THEN m
       ELSE Sub(m, 1, (CHOOSE x \in spaces : \A y \in spaces : x <= y) - 1)

\* GrabName: the Expect on len(matches) fails when there is no match and the
\* deferred GinkgoRecover lets the function return the empty string
GrabNameValue(s) ==
    LET matches == FindStringSubmatch(s)
    IN IF Len(matches) >= 1
       THEN [failed |-> FALSE, name |-> FirstFieldOrAll(matches[1])]
       ELSE [failed |-> TRUE, name |-> <<>>]

GrabName ==
    /\ gpc = "call"
    /\ grabbed' = GrabNameValue(logLines)
    /\ gpc' = "returned"
    /\ UNCHANGED logLines

----------------------------------------------------------------------------
(* Router groups in etcd: one node per guid under ROUTER_GROUP_BASE_KEY *)

GroupGuids == {"g1", "g2"}
GroupNames == {"n1", "n2"}
Callers == {"c1", "c2"}

\* models.RouterGroup{}
ZeroGroup == [Guid |-> "", Name |-> ""]

NoGroupNode == [exists |-> FALSE, dir |-> FALSE, ok |-> TRUE, value |-> ZeroGroup]

\* the directory node of ROUTER_GROUP_BASE_KEY: it has children and no value
GroupDirNode == [exists |-> TRUE, dir |-> TRUE, ok |-> FALSE, value |-> ZeroGroup]

NoRead == [called |-> FALSE, guid |-> "", stored |-> NoGroupNode, storeErr |-> FALSE,
           group |-> ZeroGroup, err |-> "nil"]

IdleGroups ==
    /\ rgStore = [g \in GroupGuids |-> NoGroupNode]
    /\ rgpc = [c \in Callers |-> "idle"]
    /\ rgArg = [c \in Callers |-> ZeroGroup]
    /\ rgResult = [c \in Callers |-> "none"]
    /\ rgRead = NoRead

\* etcd creates the directory with its first child
GroupDirExists == \E g \in GroupGuids : rgStore[g].exists

\* fmt.Sprintf("%s/%s", ROUTER_GROUP_BASE_KEY, routerGroup.Guid): the node
\* the key addresses. With an empty guid the key is the base key followed by
\* a slash, which etcd resolves to the directory itself.
generateRouterGroupKey(guid) ==
    IF guid \in GroupGuids THEN rgStore[guid]
    ELSE IF GroupDirExists THEN GroupDirNode ELSE NoGroupNode

\* keysAPI.Get on a router group node
GroupGet(n, fail) ==
    IF fail THEN [node |-> NoGroupNode, err |-> "Other"]
    ELSE IF n.exists THEN [node |-> n, err |-> "nil"]
    ELSE [node |-> NoGroupNode, err |-> "KeyNotFound"]

\* json.Unmarshal([]byte(node.Value), &routerGroup)
GroupUnmarshal(n) ==
    IF n.ok THEN [group |-> n.value, err |-> "nil"]
    ELSE [group |-> ZeroGroup, err |-> "Unmarshal"]

\* ReadRouterGroup: the (RouterGroup, error) pair returned for one answer of Get
ReadRouterGroup(out) ==
    IF out.err # "nil"
    THEN IF out.err = "KeyNotFound"
         THEN [group |-> ZeroGroup, err |-> "nil"]
         ELSE [group |-> ZeroGroup, err |-> out.err]
    ELSE GroupUnmarshal(out.node)

\* ReadRouterGroups: Get on the base key, every child decoded
ReadRouterGroups(fail) ==
    IF fail THEN [groups |-> {}, err |-> "Other"]
    ELSE IF ~GroupDirExists THEN [groups |-> {}, err |-> "nil"]
    ELSE IF \E g \in GroupGuids : rgStore[g].exists /\ ~rgStore[g].ok
         THEN [groups |-> {}, err |-> "Unmarshal"]
         ELSE [groups |-> {rgStore[g].value : g \in {h \in GroupGuids : rgStore[h].exists}},
               err |-> "nil"]

GroupReturn(c, r) ==
    /\ rgpc' = [rgpc EXCEPT ![c] = "done"]
    /\ rgResult' = [rgResult EXCEPT ![c] = r]

\* SaveRouterGroup is called; an empty guid is refused
GroupSaveStart(c, rg) ==
    /\ rgpc[c] \in {"idle", "done"}
    /\ rgArg' = [rgArg EXCEPT ![c] = rg]
    /\ IF rg.Guid = ""
       THEN GroupReturn(c, "MissingGuid")
       ELSE /\ rgpc' = [rgpc EXCEPT ![c] = "read"]
            /\ rgResult' = [rgResult EXCEPT ![c] = "none"]
    /\ UNCHANGED <<rgStore, rgRead>>

\* fetch router groups; check for uniqueness of router group name
GroupSaveRead(c) ==
    /\ rgpc[c] = "read"
    /\ \E fail \in BOOLEAN :
         LET r == ReadRouterGroups(fail)
         IN IF r.err # "nil"
            THEN GroupReturn(c, r.err)
            ELSE IF \E rg \in r.groups : rg.Guid # rgArg[c].Guid /\ rg.Name = rgArg[c].Name
                 THEN GroupReturn(c, "UniqueField")
                 ELSE rgpc' = [rgpc EXCEPT ![c] = "get"] /\ UNCHANGED rgResult
    /\ UNCHANGED <<rgStore, rgArg, rgRead>>

\* Get on the group's own key; the name of a stored group cannot be updated
GroupSaveGet(c) ==
    /\ rgpc[c] = "get"
    /\ \E fail \in BOOLEAN :
         LET out == GroupGet(generateRouterGroupKey(rgArg[c].Guid), fail)
             cur == GroupUnmarshal(out.node)
         IN IF out.err = "nil" /\ cur.err # "nil"
            THEN GroupReturn(c, cur.err)
            ELSE IF out.err = "nil" /\ rgArg[c].Name # cur.group.Name
                 THEN GroupReturn(c, "NonUpdatableField")
                 ELSE rgpc' = [rgpc EXCEPT ![c] = "set"] /\ UNCHANGED rgResult
    /\ UNCHANGED <<rgStore, rgArg, rgRead>>

\* keysAPI.Set with empty SetOptions and the error it returns
GroupSaveSet(c) ==
    /\ rgpc[c] = "set"
    /\ \E fail \in BOOLEAN :
         IF fail
         THEN GroupReturn(c, "Other") /\ UNCHANGED rgStore
         ELSE /\ rgStore' = [rgStore EXCEPT ![rgArg[c].Guid] =
                                [exists |-> TRUE, dir |-> FALSE, ok |-> TRUE, value |-> rgArg[c]]]
              /\ GroupReturn(c, "nil")
    /\ UNCHANGED <<rgArg, rgRead>>

\* one call of ReadRouterGroup(guid)
ReadRouterGroupCall(guid) ==
    /\ \E fail \in BOOLEAN :
         LET r == ReadRouterGroup(GroupGet(generateRouterGroupKey(guid), fail))
         IN rgRead' = [called |-> TRUE, guid |-> guid,
                       stored |-> IF guid \in GroupGuids THEN rgStore[guid] ELSE NoGroupNode,
                       storeErr |-> fail, group |-> r.group, err |-> r.err]
    /\ UNCHANGED <<rgStore, rgpc, rgArg, rgResult>>

\* another client of the same etcd stores a value that is not a router group
GroupForeignWrite(g) ==
    /\ rgStore' = [rgStore EXCEPT ![g] =
                      [exists |-> TRUE, dir |-> FALSE, ok |-> FALSE, value |-> ZeroGroup]]
    /\ UNCHANGED <<rgpc, rgArg, rgResult, rgRead>>

----------------------------------------------------------------------------
(* SaveRoute and SaveTcpRouteMapping, each translated from its own code,    *)
(* run against a KeysAPI that may answer every Get and Set in any way       *)

SaveFns == {"SaveRoute", "SaveTcpRouteMapping"}

\* the TTLs the callers put into the route
CallTTLs == {Route1TTL, RouteExpireTTL}

NoCall == [pc |-> "idle", retries |-> 0, resp |-> NoNode, result |-> "none",
           trace |-> <<>>, wrote |-> FALSE, ttl |-> Route1TTL]

IdleProtocol == call = [f \in SaveFns |-> NoCall]

\* the stored nodes a Get can hand back
AnswerNodes ==
    {[exists |-> TRUE, ok |-> ok, guid |-> 1, tagIndex |-> 0, mindex |-> m, ttl |-> 0] :
        ok \in BOOLEAN, m \in {1, 2}}

\* (response, err) of KeysAPI.Get: the interface allows every pair
KeysAPIGetAnswers ==
    {[isNil |-> FALSE, node |-> n, err |-> e] :
        n \in AnswerNodes, e \in {"nil", "KeyNotFound", "TestFailed", "Other"}}
    \cup {[isNil |-> TRUE, node |-> NoNode, err |-> e] :
        e \in {"nil", "KeyNotFound", "TestFailed", "Other"}}

\* err of KeysAPI.Set
KeysAPISetAnswers == {"nil", "TestFailed", "NodeExist", "KeyNotFound", "Other"}

\* cerr.Code == client.ErrorCodeTestFailed
OnlyRetryOnAnyError(e) == e # "nil"

OnlyRetryOn(e) == e = "TestFailed"

\* if retries > 0: a delete came in between a read and an update
DeleteCameInBetweenNever(r) == FALSE

DeleteCameInBetween(r) == r > 0

\* return from the function
Ret(c, r) == [c EXCEPT !.pc = "done", !.result = r]

Issued(c, op, opts, answer) ==
    [c EXCEPT !.trace = Append(@, [op |-> op, opts |-> opts, answer |-> answer])]

NoOpts == [TTL |-> 0, PrevExist |-> "", PrevIndex |-> 0]

\* the options of the Set of this attempt
CallSetOpts(c) ==
    IF c.pc = "update"
    THEN updateOptsWithTTL(c.ttl, c.resp.mindex)
    ELSE createOpts(c.ttl)

\* the branches both functions take on the answer of Get before their tails:
\* update, create, or neither ("tail")
OnGetBranch(c, out, tagOk) ==
    IF ~out.isNil /\ out.err = "nil"
    THEN IF ~out.node.ok
         THEN Ret(c, "Unmarshal")
         ELSE [c EXCEPT !.pc = "update", !.resp = out.node]
    ELSE IF out.err = "KeyNotFound"
         THEN IF DeleteCameInBetween(c.retries)
              THEN Ret(c, "ErrorConflict")
              ELSE IF tagOk
                   THEN [c EXCEPT !.pc = "create", !.resp = NoNode]
                   ELSE Ret(c, "TagError")
         ELSE [c EXCEPT !.pc = "tail"]

\* SaveRoute after the loop
SaveRoutePostLoopAlwaysNil(c) == Ret(c, "nil")

SaveRoutePostLoop(c) ==
    Ret(c, IF c.retries > maxRetries THEN "ErrorConflict" ELSE "nil")

\* SaveRoute: only retry on a compare and swap error
SaveRouteRetryCheck(c, e) ==
    IF OnlyRetryOn(e)
    THEN LET d == [c EXCEPT !.retries = @ + 1]
         IN IF LoopCond(d.retries) THEN [d EXCEPT !.pc = "get"] ELSE SaveRoutePostLoop(d)
    ELSE Ret(c, e)

SaveRouteOnGet(c, out, tagOk) ==
    LET b == OnGetBranch(Issued(c, "Get", NoOpts, <<out.isNil, out.err>>), out, tagOk)
    IN IF b.pc = "tail" THEN SaveRouteRetryCheck(b, out.err) ELSE b

SaveRouteOnSet(c, e) ==
    LET t == Issued(c, "Set", CallSetOpts(c), <<TRUE, e>>)
    IN IF e = "nil"
       THEN SaveRoutePostLoop([t EXCEPT !.wrote = TRUE])
       ELSE SaveRouteRetryCheck(t, e)

\* SaveTcpRouteMapping: return when create or update is successful, only
\* retry on a compare and swap error, ErrorConflict after the loop
SaveTcpRouteMappingTail(c, e) ==
    IF e = "nil"
    THEN Ret(c, "nil")
    ELSE IF OnlyRetryOn(e)
         THEN LET d == [c EXCEPT !.retries = @ + 1]
              IN IF LoopCond(d.retries) THEN [d EXCEPT !.pc = "get"]
                 ELSE Ret(d, "ErrorConflict")
         ELSE Ret(c, e)

SaveTcpRouteMappingOnGet(c, out, tagOk) ==
    LET b == OnGetBranch(Issued(c, "Get", NoOpts, <<out.isNil, out.err>>), out, tagOk)
    IN IF b.pc = "tail" THEN SaveTcpRouteMappingTail(b, out.err) ELSE b

SaveTcpRouteMappingOnSet(c, e) ==
    LET t == Issued(c, "Set", CallSetOpts(c), <<TRUE, e>>)
    IN SaveTcpRouteMappingTail([t EXCEPT !.wrote = (e = "nil")], e)

\* both functions are called with the same route: retries := 0
ProtoStart(ttl) ==
    /\ \A f \in SaveFns : call[f].pc \in {"idle", "done"}
    /\ call' = [f \in SaveFns |->
                   [NoCall EXCEPT !.pc = IF LoopCond(0) THEN "get" ELSE "done", !.ttl = ttl]]

\* the KeysAPI answers the Get both functions wait for
ProtoGet(out, tagOk) ==
    /\ \E f \in SaveFns : call[f].pc = "get"
    /\ call' = [f \in SaveFns |->
                   IF call[f].pc # "get" THEN call[f]
                   ELSE IF f = "SaveRoute" THEN SaveRouteOnGet(call[f], out, tagOk)
                   ELSE SaveTcpRouteMappingOnGet(call[f], out, tagOk)]

\* the KeysAPI answers the Set both functions wait for
ProtoSet(e) ==
    /\ \E f \in SaveFns : call[f].pc \in {"update", "create"}
    /\ call' = [f \in SaveFns |->
                   IF call[f].pc \notin {"update", "create"} THEN call[f]
                   ELSE IF f = "SaveRoute" THEN SaveRouteOnSet(call[f], e)
                   ELSE SaveTcpRouteMappingOnSet(call[f], e)]

----------------------------------------------------------------------------
(* Deleting and listing the entries of the store *)

\* /v1/tcp_routes/router_groups/{router_guid}/{port}/{host-ip}:{host-port}
TcpKeys == {"g1/60000/h1:61000", "g1/60001/h1:61000"}

NoEntry == [exists |-> FALSE, ok |-> TRUE]

EntryNodes == {NoEntry, [exists |-> TRUE, ok |-> TRUE], [exists |-> TRUE, ok |-> FALSE]}

NoDelete ==
    [called |-> FALSE, fn |-> "none", key |-> "none", failed |-> FALSE, err |-> "nil",
     existed |-> FALSE, exists |-> FALSE, kept |-> TRUE,
     prev |-> [fn |-> "none", key |-> "none", err |-> "none"]]

NoList == [called |-> FALSE, fn |-> "none", failed |-> FALSE, stored |-> {}, bad |-> FALSE,
           list |-> {}, err |-> "nil"]

IdleEntries ==
    /\ tcpStore = [k \in TcpKeys |-> NoEntry]
    /\ lastDelete = NoDelete
    /\ lastRead = NoList

\* the record of a delete call that has returned
Deleted(f, k, failed, err, existed, exists, kept) ==
    [called |-> TRUE, fn |-> f, key |-> k, failed |-> failed, err |-> err,
     existed |-> existed, exists |-> exists, kept |-> kept,
     prev |-> [fn |-> lastDelete.fn, key |-> lastDelete.key,
               err |-> IF lastDelete.called THEN lastDelete.err ELSE "none"]]

\* DeleteRoute is called and the store answers
DeleteRouteCall(k) ==
    /\ DeleteRoute(k)
    /\ lastDelete' = Deleted("DeleteRoute", k, FALSE, DeleteErr(store[k]), store[k].exists,
                             store'[k].exists, store'[k] = store[k])
    /\ UNCHANGED <<tcpStore, lastRead>>

\* keysAPI.Delete fails for a reason other than the store's answer: the error
\* is returned as it is, nothing is deleted
DeleteRouteFailure(k) ==
    /\ lastDelete' = Deleted("DeleteRoute", k, TRUE, "Other", store[k].exists,
                             store[k].exists, TRUE)
    /\ UNCHANGED <<saveVars, tcpStore, lastRead>>

\* DeleteTcpRouteMapping: the error returned for the answer of keysAPI.Delete
DeleteTcpRouteMappingErrNotFoundIsNil(n, failed) == IF failed THEN "Other" ELSE "nil"

DeleteTcpRouteMappingErr(n, failed) ==
    IF failed THEN "Other"
    ELSE IF n.exists THEN "nil" ELSE "DBError.KeyNotFound"

DeleteTcpRouteMapping(k, failed) ==
    /\ tcpStore' = IF ~failed /\ tcpStore[k].exists
                   THEN [tcpStore EXCEPT ![k] = NoEntry]
                   ELSE tcpStore
    /\ lastDelete' = Deleted("DeleteTcpRouteMapping", k, failed,
                             DeleteTcpRouteMappingErr(tcpStore[k], failed),
                             tcpStore[k].exists, tcpStore'[k].exists,
                             tcpStore'[k] = tcpStore[k])
    /\ UNCHANGED <<saveVars, lastRead>>

\* ReadTcpRouteMappings: the mappings of every port of every router group,
\* none when the Get or one Unmarshal fails
ReadTcpRouteMappingsSkippingBad(ts, getErr) ==
    IF getErr THEN {} ELSE {k \in TcpKeys : ts[k].exists /\ ts[k].ok}

ReadTcpRouteMappings(ts, getErr) ==
    IF getErr \/ (\E k \in TcpKeys : ts[k].exists /\ ~ts[k].ok)
    THEN {}
    ELSE {k \in TcpKeys : ts[k].exists}

\* the record of a list call that has returned
Listed(f, failed, stored, bad, list, err) ==
    [called |-> TRUE, fn |-> f, failed |-> failed, stored |-> stored, bad |-> bad,
     list |-> list, err |-> err]

\* ReadRoutes is called: return listRoutes, nil
ReadRoutesCall(failed) ==
    /\ lastRead' = Listed("ReadRoutes", failed, {k \in Keys : store[k].exists},
                          \E k \in Keys : store[k].exists /\ ~store[k].ok,
                          ReadRoutes(store, failed \/ \A k \in Keys : ~store[k].exists),
                          "nil")
    /\ UNCHANGED <<saveVars, tcpStore, lastDelete>>

\* ReadTcpRouteMappings is called: return listMappings, nil
ReadTcpRouteMappingsCall(failed) ==
    /\ lastRead' = Listed("ReadTcpRouteMappings", failed, {k \in TcpKeys : tcpStore[k].exists},
                          \E k \in TcpKeys : tcpStore[k].exists /\ ~tcpStore[k].ok,
                          ReadTcpRouteMappings(tcpStore,
                              failed \/ \A k \in TcpKeys : ~tcpStore[k].exists),
                          "nil")
    /\ UNCHANGED <<saveVars, tcpStore, lastDelete>>

\* ReadRouterGroups is called
ReadRouterGroupsCall(failed) ==
    /\ lastRead' = Listed("ReadRouterGroups", failed,
                          {rgStore[g].value : g \in {h \in GroupGuids : rgStore[h].exists}},
                          \E g \in GroupGuids : rgStore[g].exists /\ ~rgStore[g].ok,
                          ReadRouterGroups(failed).groups, ReadRouterGroups(failed).err)
    /\ UNCHANGED <<saveVars, tcpStore, lastDelete>>

----------------------------------------------------------------------------
(* jointDB: a database that can choose between querying ETCD or SQL *)

\* what a DB argument can be: the nil interface, an *etcd, an *SqlDB, or
\* another implementation of DB (a jointDB)
DBKinds == {"nil", "etcd", "sql", "joint"}

\* the methods of the DB interface
RouterGroupOps == {"ReadRouterGroups", "ReadRouterGroup", "SaveRouterGroup"}

DBOps ==
    RouterGroupOps \cup
    {"ReadRoutes", "SaveRoute", "DeleteRoute", "ReadTcpRouteMappings", "SaveTcpRouteMapping",
     "DeleteTcpRouteMapping", "Connect", "CancelWatches", "WatchRouteChanges"}

NoJoint == [built |-> FALSE, etcd |-> "nil", sql |-> "nil", err |-> "nil"]

NoJointCall == [op \in DBOps |-> "none"]

IdleJoint ==
    /\ jargs = [etcdDatabase |-> "nil", sqlDatabase |-> "nil"]
    /\ jdb = NoJoint
    /\ jcall = NoJointCall

\* the value NewJointDB returns for its two arguments
NewJointDBValue(etcdDatabase, sqlDatabase) ==
    IF etcdDatabase # "etcd"
    THEN [built |-> FALSE, etcd |-> "nil", sql |-> "nil",
          err |-> "JointDB: etcdDatabase is not an ETCD DB"]
    ELSE IF sqlDatabase # "nil" /\ sqlDatabase # "sql"
    THEN [built |-> FALSE, etcd |-> "nil", sql |-> "nil",
          err |-> "JointDB: sqlDatabase is not a SQL DB"]
    ELSE [built |-> TRUE, etcd |-> "etcd", sql |-> sqlDatabase, err |-> "nil"]

NewJointDB ==
    /\ jdb = NoJoint
    /\ jdb' = NewJointDBValue(jargs.etcdDatabase, jargs.sqlDatabase)
    /\ UNCHANGED <<jargs, jcall>>

\* the database that serves a method of the jointDB: the three router group
\* methods test j.sql, every other method is the embedded *etcd's
ServedByEtcdOnly(j, op) == "etcd"

ServedBy(j, op) ==
    IF op \in RouterGroupOps /\ j.sql # "nil" THEN "sql" ELSE "etcd"

JointCall(op) ==
    /\ jdb.built
    /\ jcall' = [jcall EXCEPT ![op] = ServedBy(jdb, op)]
    /\ UNCHANGED <<jargs, jdb>>

----------------------------------------------------------------------------
(* WatchRouteChanges and dispatchWatchEvents *)

\* responses a watch may return before the store goes quiet
MaxResponses == 3

WatchFilters == {"/routes", "/v1/tcp_routes/router_groups"}

\* what watcher.Next returns besides a response
NextErrors ==
    {"ErrorCodeEventIndexCleared", "client.Error", "context.Canceled", "error"}

NoValue == [ch |-> "none", n |-> 0, watcher |-> 0]

IdleWatch ==
    /\ wpc = "idle"
    /\ watchers = <<>>
    /\ wctx = "none"
    /\ werr = "none"
    /\ wval = NoValue
    /\ wresponses = 0
    /\ wrecv = <<>>
    /\ wclosed = [events |-> 0, errors |-> 0]
    /\ wconsumer = "receiving"

\* the key of the watcher created after the event index was cleared
RewatchOtherKey(key) == CHOOSE k \in WatchFilters : k # key

RewatchKey(key) == key

\* whether an error of watcher.Next is sent on the error channel
SendsErrAlways(err) == TRUE

SendsErr(err) == err # "context.Canceled"

\* WatchRouteChanges: two unbuffered channels, a context derived from the
\* DB's, the dispatcher started with its first watcher
WatchRouteChanges(filter) ==
    /\ wpc = "idle"
    /\ wpc' = "next"
    /\ watchers' = <<filter>>
    /\ UNCHANGED <<wctx, werr, wval, wresponses, wrecv, wclosed, wconsumer>>

\* watcher.Next returns a response and NewEvent makes an event of it or fails
WatcherNextResponse(newEventFails) ==
    /\ wpc = "next"
    /\ wctx = "none"
    /\ wresponses < MaxResponses
    /\ wresponses' = wresponses + 1
    /\ werr' = "nil"
    /\ wval' = [ch |-> IF newEventFails THEN "errors" ELSE "events",
                n |-> wresponses + 1, watcher |-> Len(watchers)]
    /\ wpc' = IF newEventFails THEN "sendError" ELSE "sendEvent"
    /\ UNCHANGED <<watchers, wctx, wrecv, wclosed, wconsumer>>

\* watcher.Next returns an error: context.Canceled once the context is
\* cancelled, any other error while it is live
WatcherNextError(err) ==
    /\ wpc = "next"
    /\ IF wctx = "none" THEN err # "context.Canceled" ELSE err = "context.Canceled"
    /\ werr' = err
    /\ IF err = "ErrorCodeEventIndexCleared"
       THEN /\ Len(watchers) <= MaxResponses
            /\ watchers' = Append(watchers, RewatchKey(watchers[Len(watchers)]))
            /\ wpc' = "next"
            /\ UNCHANGED wval
       ELSE IF SendsErr(err)
       THEN /\ wval' = [ch |-> "errors", n |-> 0, watcher |-> Len(watchers)]
            /\ wpc' = "sendError"
            /\ UNCHANGED watchers
       ELSE /\ wpc' = "return"
            /\ UNCHANGED <<watchers, wval>>
    /\ UNCHANGED <<wctx, wresponses, wrecv, wclosed, wconsumer>>

\* events <- event: the send on the unbuffered channel happens when the
\* consumer receives
DispatchSendEvent ==
    /\ wpc = "sendEvent"
    /\ wconsumer = "receiving"
    /\ wrecv' = Append(wrecv, wval)
    /\ wval' = NoValue
    /\ wpc' = "next"
    /\ UNCHANGED <<watchers, wctx, werr, wresponses, wclosed, wconsumer>>

\* errors <- err, then return
DispatchSendError ==
    /\ wpc = "sendError"
    /\ wconsumer = "receiving"
    /\ wrecv' = Append(wrecv, wval)
    /\ wval' = NoValue
    /\ wpc' = "return"
    /\ UNCHANGED <<watchers, wctx, werr, wresponses, wclosed, wconsumer>>

\* the deferred close(errors) and close(events)
DispatchReturn ==
    /\ wpc = "return"
    /\ wclosed' = [events |-> wclosed.events + 1, errors |-> wclosed.errors + 1]
    /\ wpc' = "done"
    /\ UNCHANGED <<watchers, wctx, werr, wval, wresponses, wrecv, wconsumer>>

\* the cancel function WatchRouteChanges returned, or CancelWatches on the DB
WatchCancel(by) ==
    /\ wpc # "idle"
    /\ wctx = "none"
    /\ wctx' = by
    /\ UNCHANGED <<wpc, watchers, werr, wval, wresponses, wrecv, wclosed, wconsumer>>

\* the consumer leaves its receive loop
ConsumerStop ==
    /\ wpc # "idle"
    /\ wconsumer = "receiving"
    /\ wconsumer' = "stopped"
    /\ UNCHANGED <<wpc, watchers, wctx, werr, wval, wresponses, wrecv, wclosed>>

----------------------------------------------------------------------------
(* Specification of the store under concurrent savers and deleters of one key *)

\* nothing stored, no call in progress
IdleSave ==
    /\ store = [k \in Keys |-> NoNode]
    /\ etcdIndex = 0
    /\ fn = "SaveRoute"
    /\ pc = [p \in Savers |-> "idle"]
    /\ retries = [p \in Savers |-> 0]
    /\ resp = [p \in Savers |-> NoNode]
    /\ arg = [p \in Savers |-> [key |-> "route1", ttl |-> Route1TTL]]
    /\ result = [p \in Savers |-> "none"]
    /\ lastWrite = NoWrite

InitSave ==
    /\ store = [k \in Keys |-> NoNode]
    /\ etcdIndex = 0
    /\ fn \in {"SaveRoute", "SaveTcpRouteMapping"}
    /\ pc = [p \in Savers |-> "idle"]
    /\ retries = [p \in Savers |-> 0]
    /\ resp = [p \in Savers |-> NoNode]
    /\ arg = [p \in Savers |-> [key |-> "route1", ttl |-> Route1TTL]]
    /\ result = [p \in Savers |-> "none"]
    /\ lastWrite = NoWrite
    /\ IdleVerify
    /\ IdleRoute
    /\ IdleStats
    /\ IdleConfig
    /\ IdleSmoke
    /\ IdleGroups
    /\ IdleProtocol
    /\ IdleEntries
    /\ IdleJoint
    /\ IdleWatch
    /\ IdleDomains
    /\ IdlePorts
    /\ IdleGrab

NextSave ==
    \/ (\E p \in Savers : SaveStart(p, "route1", Route1TTL)) /\ UNCHANGED <<verifyVars, routeVars, statsVars, cfgVars, smokeVars, groupVars, protoVars, entVars, jointVars, watchVars, domVars, portVars, grabVars>>
    \/ (\E p \in Savers : SaveGet(p)) /\ UNCHANGED <<verifyVars, routeVars, statsVars, cfgVars, smokeVars, groupVars, protoVars, entVars, jointVars, watchVars, domVars, portVars, grabVars>>
    \/ (\E p \in Savers : SaveSet(p)) /\ UNCHANGED <<verifyVars, routeVars, statsVars, cfgVars, smokeVars, groupVars, protoVars, entVars, jointVars, watchVars, domVars, portVars, grabVars>>
    \/ (\E p \in Savers : SaveSetFailure(p)) /\ UNCHANGED <<verifyVars, routeVars, statsVars, cfgVars, smokeVars, groupVars, protoVars, entVars, jointVars, watchVars, domVars, portVars, grabVars>>
    \/ DeleteRoute("route1") /\ UNCHANGED <<verifyVars, routeVars, statsVars, cfgVars, smokeVars, groupVars, protoVars, entVars, jointVars, watchVars, domVars, portVars, grabVars>>
    \/ Expire("route1") /\ UNCHANGED <<verifyVars, routeVars, statsVars, cfgVars, smokeVars, groupVars, protoVars, entVars, jointVars, watchVars, domVars, portVars, grabVars>>
    \/ ForeignWrite("route1") /\ UNCHANGED <<verifyVars, routeVars, statsVars, cfgVars, smokeVars, groupVars, protoVars, entVars, jointVars, watchVars, domVars, portVars, grabVars>>

SpecSave == InitSave /\ [][NextSave]_vars

----------------------------------------------------------------------------
(* C1: a Set that succeeds replaces exactly the version the Get of the same
   attempt observed: an update replaces the node whose ModifiedIndex it read,
   a create replaces nothing (the key is absent). No lost update. *)
C1_NoLostUpdate ==
    /\ lastWrite.kind = "update" =>
          lastWrite.observed # 0 /\ lastWrite.replaced = lastWrite.observed
    /\ lastWrite.kind = "create" => lastWrite.replaced = 0

\* an update that went through after a compare-and-swap failure of the same call
C1_Witness ==
    /\ lastWrite.kind = "update"
    /\ lastWrite.retried
    /\ lastWrite.replaced = lastWrite.observed


----------------------------------------------------------------------------
\* the tag the store holds for the key
C19_StoredTag == [guid |-> store["route1"].guid, tagIndex |-> store["route1"].tagIndex]

\* C19: the stored modification tag is the store's: an update writes the tag
\* stored before, incremented once, a create writes a fresh tag; the n-th
\* successful save since the key was created leaves the created tag
\* incremented n - 1 times, and no two successful writes store the same tag.
C19_TagOwnedByStore ==
    lastWrite.kind # "none" =>
        /\ lastWrite.kind = "update" =>
              lastWrite.tag = [lastWrite.before EXCEPT !.tagIndex = @ + 1]
        /\ lastWrite.kind = "create" =>
              (lastWrite.tag.tagIndex = 0 /\ lastWrite.created = lastWrite.tag)
        /\ lastWrite.tag = [lastWrite.created EXCEPT !.tagIndex = lastWrite.saves - 1]
        /\ Cardinality(lastWrite.tags) = lastWrite.writes
        /\ (store["route1"].exists /\ store["route1"].ok) => C19_StoredTag = lastWrite.tag

\* three saves of two concurrent savers on the created key, one of them retried
C19_Witness ==
    /\ lastWrite.saves = 3
    /\ lastWrite.retried
    /\ lastWrite.tag.tagIndex = 2
    /\ C19_StoredTag = lastWrite.tag
    /\ \A p \in Savers : pc[p] = "done" /\ result[p] = "nil"

----------------------------------------------------------------------------
(* Specification of verifyConnection against an arbitrary network: any dial,
   write, read or close may fail, and any receiver may answer *)

ServerIds == {serverId1, serverId2}

InitVerify ==
    /\ IdleVerify
    /\ IdleSave
    /\ IdleRoute
    /\ IdleStats
    /\ IdleConfig
    /\ IdleSmoke
    /\ IdleGroups
    /\ IdleProtocol
    /\ IdleEntries
    /\ IdleJoint
    /\ IdleWatch
    /\ IdleDomains
    /\ IdlePorts
    /\ IdleGrab

NextVerify ==
    \/ (\E sid \in ServerIds : VerifyStart(60001, sid)) /\ UNCHANGED <<saveVars, routeVars, statsVars, cfgVars, smokeVars, groupVars, protoVars, entVars, jointVars, watchVars, domVars, portVars, grabVars>>
    \/ VerifyRecv /\ UNCHANGED <<saveVars, routeVars, statsVars, cfgVars, smokeVars, groupVars, protoVars, entVars, jointVars, watchVars, domVars, portVars, grabVars>>
    \/ VerifyReturn /\ UNCHANGED <<saveVars, routeVars, statsVars, cfgVars, smokeVars, groupVars, protoVars, entVars, jointVars, watchVars, domVars, portVars, grabVars>>
    \/ (\E g \in DOMAIN chk : CheckSleep(g)) /\ UNCHANGED <<saveVars, routeVars, statsVars, cfgVars, smokeVars, groupVars, protoVars, entVars, jointVars, watchVars, domVars, portVars, grabVars>>
    \/ (\E g \in DOMAIN chk : \E failed \in BOOLEAN : CheckDial(g, failed, 9001))
          /\ UNCHANGED <<saveVars, routeVars, statsVars, cfgVars, smokeVars, groupVars, protoVars, entVars, jointVars, watchVars, domVars, portVars, grabVars>>
    \/ (\E g \in DOMAIN chk : \E failed \in BOOLEAN : \E n \in Nanos :
            CheckWrite(g, failed, n)) /\ UNCHANGED <<saveVars, routeVars, statsVars, cfgVars, smokeVars, groupVars, protoVars, entVars, jointVars, watchVars, domVars, portVars, grabVars>>
    \/ (\E g \in DOMAIN chk : \E failed \in BOOLEAN : \E sid \in ServerIds :
            CheckRead(g, failed, sid \o <<":">> \o chk[g].message)) /\ UNCHANGED <<saveVars, routeVars, statsVars, cfgVars, smokeVars, groupVars, protoVars, entVars, jointVars, watchVars, domVars, portVars, grabVars>>
    \/ (\E g \in DOMAIN chk : CheckCompare(g)) /\ UNCHANGED <<saveVars, routeVars, statsVars, cfgVars, smokeVars, groupVars, protoVars, entVars, jointVars, watchVars, domVars, portVars, grabVars>>
    \/ (\E g \in DOMAIN chk : \E failed \in BOOLEAN : CheckClose(g, failed))
          /\ UNCHANGED <<saveVars, routeVars, statsVars, cfgVars, smokeVars, groupVars, protoVars, entVars, jointVars, watchVars, domVars, portVars, grabVars>>
    \/ (\E g \in DOMAIN chk : CheckSend(g)) /\ UNCHANGED <<saveVars, routeVars, statsVars, cfgVars, smokeVars, groupVars, protoVars, entVars, jointVars, watchVars, domVars, portVars, grabVars>>

SpecVerify == InitVerify /\ [][NextVerify]_vars

----------------------------------------------------------------------------
(* C2: verifyConnection runs at most 11 checks (the first and at most 10
   retries); it returns at the first check that reports no error and starts no
   check after that; it fails the assertion exactly when the 11th check also
   reported an error. *)
C2_BoundedRetry ==
    /\ Len(chk) <= VerifyRetries + 1
    /\ Len(results) <= Len(chk)
    /\ \A k \in 1..(Len(results) - 1) : results[k] = "err"
    /\ vpc = "loop" => \A k \in 1..Len(results) : results[k] = "err"
    /\ vpc = "passed" =>
          /\ results[Len(results)] = "nil"
          /\ Len(chk) = Len(results)
          /\ \A g \in DOMAIN chk : chk[g].pc = "done"
    /\ vpc = "failed" =>
          /\ Len(results) = VerifyRetries + 1
          /\ results[Len(results)] = "err"
          /\ Len(chk) = Len(results)
          /\ \A g \in DOMAIN chk : chk[g].pc = "done"

\* the assertion failed after the 11th check
C2_Witness ==
    /\ vpc = "failed"
    /\ Len(chk) = 11
    /\ i = 10


----------------------------------------------------------------------------
\* the checkConnection goroutines that have not returned
InFlight == {g \in DOMAIN chk : chk[g].pc # "done"}

\* the values a checkConnection can send
CheckResults ==
    {"dial error", "write error", "read error", "Message mismatch", "close error", "nil"}

\* C29: every checkConnection sends exactly one value on errChan, on each of
\* its paths, and verifyConnection starts a check only after it received the
\* result of the previous one; so at most one check is in flight, a check that
\* is about to send finds room in the channel, and when verifyConnection ends
\* every check has returned.
C29_State ==
    /\ Cardinality(InFlight) <= 1
    /\ \A g \in DOMAIN chk : chk[g].pc = "send" =>
          /\ Len(errChan) < ErrChanCap
          /\ chk[g].res \in CheckResults
    /\ Len(errChan) <= ErrChanCap
    /\ Len(errChan) + Len(results) = Len(chk) - Cardinality(InFlight)
    /\ vpc \in {"passed", "failed"} => (InFlight = {} /\ errChan = <<>>)

C29_Step ==
    /\ \A g \in DOMAIN chk :
          (g \in DOMAIN chk' /\ chk[g].pc # "done" /\ chk'[g].pc = "done") =>
              /\ chk[g].pc = "send"
              /\ errChan' = Append(errChan, chk[g].res)
    /\ Len(errChan') > Len(errChan) =>
          \E g \in DOMAIN chk : chk[g].pc = "send" /\ chk'[g].pc = "done"
    /\ Len(chk') > Len(chk) =>
          /\ Len(chk') = Len(chk) + 1
          /\ InFlight = {}
          /\ vpc = "idle" \/ (Len(results') = Len(results) + 1 /\ errChan' = <<>>)

C29_OneResultPerCheck ==
    [](C29_State) /\ [][C29_Step]_vars

\* the second check is about to send a message mismatch, after the first
\* reported a dial error, and the channel is empty
C29_Witness ==
    /\ vpc = "loop"
    /\ Len(chk) = 2
    /\ chk[1].pc = "done"
    /\ chk[2].pc = "send" /\ chk[2].res = "Message mismatch"
    /\ results = <<"err">>
    /\ errChan = <<>>

\* verifyConnection ended on the result of Close, every check returned
C29_WitnessEnded ==
    /\ vpc = "passed"
    /\ Len(chk) = 3
    /\ InFlight = {}
    /\ errChan = <<>>
----------------------------------------------------------------------------
(* Specification of the Routing Test: one It block runs against the router *)

InitRoute ==
    /\ scenario \in Scenarios
    /\ tpc = "start"
    /\ receivers = {}
    /\ desired = NoMapping
    /\ active = NoMapping
    /\ rr = [p \in ExtPorts |-> 0]
    /\ lag = 0
    /\ lrp = NoLRP
    /\ probes = 0
    /\ lastConn = [port |-> 0, backend |-> 0]
    /\ responses = <<>>
    /\ served = <<>>
    /\ IdleVerify
    /\ IdleSave
    /\ IdleStats
    /\ IdleConfig
    /\ IdleSmoke
    /\ IdleGroups
    /\ IdleProtocol
    /\ IdleEntries
    /\ IdleJoint
    /\ IdleWatch
    /\ IdleDomains
    /\ IdlePorts
    /\ IdleGrab

NextRoute ==
    \/ BeforeEach /\ UNCHANGED <<saveVars, verifyVars, statsVars, cfgVars, smokeVars, groupVars, protoVars, entVars, jointVars, watchVars, domVars, portVars, grabVars>>
    \/ Configure /\ UNCHANGED <<saveVars, verifyVars, statsVars, cfgVars, smokeVars, groupVars, protoVars, entVars, jointVars, watchVars, domVars, portVars, grabVars>>
    \/ CallVerify /\ UNCHANGED <<saveVars, statsVars, cfgVars, smokeVars, groupVars, protoVars, entVars, jointVars, watchVars, domVars, portVars, grabVars>>
    \/ VerifyOver /\ UNCHANGED <<saveVars, statsVars, cfgVars, smokeVars, groupVars, protoVars, entVars, jointVars, watchVars, domVars, portVars, grabVars>>
    \/ UpdateLRP /\ UNCHANGED <<saveVars, verifyVars, statsVars, cfgVars, smokeVars, groupVars, protoVars, entVars, jointVars, watchVars, domVars, portVars, grabVars>>
    \/ Probe /\ UNCHANGED <<saveVars, verifyVars, statsVars, cfgVars, smokeVars, groupVars, protoVars, entVars, jointVars, watchVars, domVars, portVars, grabVars>>
    \/ sendAndReceive /\ UNCHANGED <<saveVars, verifyVars, statsVars, cfgVars, smokeVars, groupVars, protoVars, entVars, jointVars, watchVars, domVars, portVars, grabVars>>
    \/ ExpectDifferent /\ UNCHANGED <<saveVars, verifyVars, statsVars, cfgVars, smokeVars, groupVars, protoVars, entVars, jointVars, watchVars, domVars, portVars, grabVars>>
    \/ AfterEach /\ UNCHANGED <<saveVars, verifyVars, statsVars, cfgVars, smokeVars, groupVars, protoVars, entVars, jointVars, watchVars, domVars, portVars, grabVars>>
    \/ RouterApply /\ UNCHANGED <<saveVars, verifyVars, statsVars, cfgVars, smokeVars, groupVars, protoVars, entVars, jointVars, watchVars, domVars, portVars, grabVars>>
    \/ VerifyRecv /\ UNCHANGED <<saveVars, routeVars, statsVars, cfgVars, smokeVars, groupVars, protoVars, entVars, jointVars, watchVars, domVars, portVars, grabVars>>
    \/ (\E g \in DOMAIN chk : RouteCheckSleep(g)) /\ UNCHANGED <<saveVars, statsVars, cfgVars, smokeVars, groupVars, protoVars, entVars, jointVars, watchVars, domVars, portVars, grabVars>>
    \/ (\E g \in DOMAIN chk : RouteCheckDial(g)) /\ UNCHANGED <<saveVars, statsVars, cfgVars, smokeVars, groupVars, protoVars, entVars, jointVars, watchVars, domVars, portVars, grabVars>>
    \/ (\E g \in DOMAIN chk : \E n \in Nanos : CheckWrite(g, FALSE, n))
          /\ UNCHANGED <<saveVars, routeVars, statsVars, cfgVars, smokeVars, groupVars, protoVars, entVars, jointVars, watchVars, domVars, portVars, grabVars>>
    \/ (\E g \in DOMAIN chk : RouteCheckRead(g)) /\ UNCHANGED <<saveVars, routeVars, statsVars, cfgVars, smokeVars, groupVars, protoVars, entVars, jointVars, watchVars, domVars, portVars, grabVars>>
    \/ (\E g \in DOMAIN chk : CheckCompare(g)) /\ UNCHANGED <<saveVars, routeVars, statsVars, cfgVars, smokeVars, groupVars, protoVars, entVars, jointVars, watchVars, domVars, portVars, grabVars>>
    \/ (\E g \in DOMAIN chk : CheckClose(g, FALSE)) /\ UNCHANGED <<saveVars, routeVars, statsVars, cfgVars, smokeVars, groupVars, protoVars, entVars, jointVars, watchVars, domVars, portVars, grabVars>>
    \/ (\E g \in DOMAIN chk : CheckSend(g)) /\ UNCHANGED <<saveVars, routeVars, statsVars, cfgVars, smokeVars, groupVars, protoVars, entVars, jointVars, watchVars, domVars, portVars, grabVars>>

\* the specs, their goroutines and the router keep running
SpecRoute == InitRoute /\ [][NextRoute]_vars /\ WF_vars(NextRoute)

----------------------------------------------------------------------------
(* Claims about the Routing Test *)

\* what a passing check has read, and which backend answered each verifyConnection
C3_Answered ==
    scenario = "routes" =>
       /\ \A g \in DOMAIN chk :
             chk[g].pc = "close" =>
                /\ chk[g].buff = vargs.serverId \o <<":">> \o chk[g].message
                /\ BackendUp(chk[g].conn)
                /\ ServerIdAt(chk[g].conn) = vargs.serverId
       /\ Len(served) >= 1 =>
             served[1] = [port |-> externalPort1, serverId |-> serverId1,
                          backend |-> sampleReceiverPort1]
       /\ Len(served) >= 2 =>
             served[2] = [port |-> externalPort1, serverId |-> serverId2,
                          backend |-> sampleReceiverPort2]

(* C3: after a mapping request maps the external port to one backend, the
   client's check that passes received exactly serverId ":" message from that
   backend, and verifyConnection passes within its retries; after a second
   mapping request names another backend, the check that passes was answered
   by the new backend. *)
C3_RoutesTraffic ==
    /\ [](C3_Answered)
    /\ (scenario = "routes" /\ tpc = "verify1") ~> (tpc = "configure2" /\ Len(served) = 1)
    /\ (scenario = "routes" /\ tpc = "verify2") ~> (tpc = "done" /\ Len(served) = 2)

\* the spec is through: both verifyConnection calls passed, the second one
\* answered by the second receiver
C3_Witness ==
    /\ scenario = "routes"
    /\ tpc = "done"
    /\ Len(served) = 2
    /\ served[2].backend = sampleReceiverPort2

(* C4: with one external port mapped to two backends and the port accepting
   connections, two consecutive connections (the first still open) are served
   by different backends: the two responses to "Hello" differ. *)
C4_LoadBalanced ==
    scenario = "loadbalance" =>
       /\ Len(responses) = 2 => responses[1] # responses[2]
       /\ tpc \in {"expect", "after", "done"} =>
             {responses[1], responses[2]} = {Echo(serverId3, <<"Hello">>),
                                             Echo(serverId4, <<"Hello">>)}
       /\ tpc # "failed"

C4_Witness ==
    /\ scenario = "loadbalance"
    /\ tpc = "done"
    /\ Len(responses) = 2
    /\ probes > 0

\* the two verifyConnection calls were answered by one backend on two ports
C9_SameBackend ==
    scenario = "twoports" =>
       /\ Len(served) >= 1 =>
             served[1].port = externalPort1 /\ served[1].serverId = serverId6
       /\ Len(served) = 2 =>
             /\ served[2].port = externalPort2
             /\ served[2].port # served[1].port
             /\ served[2].backend = served[1].backend
             /\ served[2].serverId = served[1].serverId

(* C9: a desired LRP with two TCP routes, different external ports and the
   same container port: connections to either external port are eventually
   served, and by the same backend with the same server id. *)
C9_TwoExternalPorts ==
    /\ [](C9_SameBackend)
    /\ (scenario = "twoports" /\ tpc = "start") ~> (tpc = "done" /\ Len(served) = 2)

C9_Witness ==
    /\ scenario = "twoports"
    /\ tpc = "done"
    /\ Len(served) = 2
    /\ served[1].backend = sampleReceiverPort1

\* the verifyConnection after the update was answered by the same LRP on the new port
C10_SameLRP ==
    scenario = "updateport" =>
       /\ Len(served) >= 1 => served[1].port = externalPort1
       /\ Len(served) = 2 =>
             /\ served[2].port = externalPort1Updated
             /\ served[2].port # served[1].port
             /\ served[2].backend = served[1].backend
             /\ served[2].serverId = served[1].serverId
             /\ served[2].serverId = serverIdNode

(* C10: after the desired LRP that receives traffic on its external port is
   updated to a new external port, connections to the new external port are
   eventually served by the same LRP (same backend, same server id). *)
C10_UpdatedExternalPort ==
    /\ [](C10_SameLRP)
    /\ (scenario = "updateport" /\ tpc = "update") ~> (tpc = "done" /\ Len(served) = 2)

C10_Witness ==
    /\ scenario = "updateport"
    /\ tpc = "done"
    /\ Len(served) = 2
    /\ served[2].port = externalPort1Updated

----------------------------------------------------------------------------
(* Specification of the stats specs: one It block runs against the routing API *)

InitStats ==
    /\ sscenario \in StatsScenarios
    /\ sphase = "before"
    /\ spc = 1
    /\ calling = FALSE
    /\ apiUp = FALSE
    /\ watchQ = <<>>
    /\ handlers = 0
    /\ subs = 0
    /\ statsBuf = <<>>
    /\ sent = <<>>
    /\ udp = <<>>
    /\ sockClosed = FALSE
    /\ reader = [pc |-> "none", tokens |-> <<>>]
    /\ fakeStatsdChan = [buf |-> <<>>, closed |-> FALSE]
    /\ IdleSave
    /\ IdleVerify
    /\ IdleRoute
    /\ IdleConfig
    /\ IdleSmoke
    /\ IdleGroups
    /\ IdleProtocol
    /\ IdleEntries
    /\ IdleJoint
    /\ IdleWatch
    /\ IdleDomains
    /\ IdlePorts
    /\ IdleGrab

\* the steps that are taken when they can be: the routing API, etcd, the
\* goroutine and the It block
StatsProgress ==
    \/ StatsBeforeEach /\ UNCHANGED <<verifyVars, routeVars, cfgVars, smokeVars, groupVars, protoVars, entVars, jointVars, watchVars, domVars, portVars, grabVars>>
    \/ StatsSleep /\ UNCHANGED <<verifyVars, routeVars, cfgVars, smokeVars, groupVars, protoVars, entVars, jointVars, watchVars, domVars, portVars, grabVars>>
    \/ ApiRegisterSelf /\ UNCHANGED <<verifyVars, routeVars, cfgVars, smokeVars, groupVars, protoVars, entVars, jointVars, watchVars, domVars, portVars, grabVars>>
    \/ (\E p \in Savers : ApiSaveGet(p)) /\ UNCHANGED <<verifyVars, routeVars, cfgVars, smokeVars, groupVars, protoVars, entVars, jointVars, watchVars, domVars, portVars, grabVars>>
    \/ (\E p \in Savers : ApiSaveSet(p)) /\ UNCHANGED <<verifyVars, routeVars, cfgVars, smokeVars, groupVars, protoVars, entVars, jointVars, watchVars, domVars, portVars, grabVars>>
    \/ (\E k \in {"route1", "routeExpire"} : EtcdExpire(k)) /\ UNCHANGED <<verifyVars, routeVars, cfgVars, smokeVars, groupVars, protoVars, entVars, jointVars, watchVars, domVars, portVars, grabVars>>
    \/ ReporterEvent /\ UNCHANGED <<verifyVars, routeVars, cfgVars, smokeVars, groupVars, protoVars, entVars, jointVars, watchVars, domVars, portVars, grabVars>>
    \/ ReporterTick /\ UNCHANGED <<verifyVars, routeVars, cfgVars, smokeVars, groupVars, protoVars, entVars, jointVars, watchVars, domVars, portVars, grabVars>>
    \/ ApiSubscribed /\ UNCHANGED <<verifyVars, routeVars, cfgVars, smokeVars, groupVars, protoVars, entVars, jointVars, watchVars, domVars, portVars, grabVars>>
    \/ Flush /\ UNCHANGED <<verifyVars, routeVars, cfgVars, smokeVars, groupVars, protoVars, entVars, jointVars, watchVars, domVars, portVars, grabVars>>
    \/ ReaderRead /\ UNCHANGED <<verifyVars, routeVars, cfgVars, smokeVars, groupVars, protoVars, entVars, jointVars, watchVars, domVars, portVars, grabVars>>
    \/ ReaderSend /\ UNCHANGED <<verifyVars, routeVars, cfgVars, smokeVars, groupVars, protoVars, entVars, jointVars, watchVars, domVars, portVars, grabVars>>
    \/ ReaderClosed /\ UNCHANGED <<verifyVars, routeVars, cfgVars, smokeVars, groupVars, protoVars, entVars, jointVars, watchVars, domVars, portVars, grabVars>>
    \/ ClientUpsert /\ UNCHANGED <<verifyVars, routeVars, cfgVars, smokeVars, groupVars, protoVars, entVars, jointVars, watchVars, domVars, portVars, grabVars>>
    \/ ClientUpsertReturn /\ UNCHANGED <<verifyVars, routeVars, cfgVars, smokeVars, groupVars, protoVars, entVars, jointVars, watchVars, domVars, portVars, grabVars>>
    \/ ClientDelete /\ UNCHANGED <<verifyVars, routeVars, cfgVars, smokeVars, groupVars, protoVars, entVars, jointVars, watchVars, domVars, portVars, grabVars>>
    \/ ClientSubscribe /\ UNCHANGED <<verifyVars, routeVars, cfgVars, smokeVars, groupVars, protoVars, entVars, jointVars, watchVars, domVars, portVars, grabVars>>
    \/ ExpectReceive /\ UNCHANGED <<verifyVars, routeVars, cfgVars, smokeVars, groupVars, protoVars, entVars, jointVars, watchVars, domVars, portVars, grabVars>>

NextStats ==
    \/ StatsProgress
    \/ ReaderDeadline /\ UNCHANGED <<verifyVars, routeVars, cfgVars, smokeVars, groupVars, protoVars, entVars, jointVars, watchVars, domVars, portVars, grabVars>>
    \/ StatsAfterEach /\ UNCHANGED <<verifyVars, routeVars, cfgVars, smokeVars, groupVars, protoVars, entVars, jointVars, watchVars, domVars, portVars, grabVars>>

\* the routing API, etcd and the goroutine keep running; when the read
\* deadline passes and when the spec ends is left open
SpecStats == InitStats /\ [][NextStats]_vars /\ WF_vars(StatsProgress)

----------------------------------------------------------------------------
(* Claims about the stats specs *)

RoutesInc == "routing_api.total_http_routes:+1|g"

RoutesDec == "routing_api.total_http_routes:-1|g"

RoutesOne == "routing_api.total_http_routes:1|g"

SubscriptionsInc == "routing_api.total_http_subscriptions:+1|g"

\* the stream has the increment of route k
Incremented(k) ==
    \E a \in DOMAIN sent : sent[a].text = RoutesInc /\ sent[a].key = k

\* the stream has the increment of route k and, later, its decrement
IncThenDec(k) ==
    \E a, b \in DOMAIN sent :
        /\ a < b
        /\ sent[a].text = RoutesInc /\ sent[a].key = k
        /\ sent[b].text = RoutesDec /\ sent[b].key = k

\* no decrement of a route without its increment earlier in the stream
C5_IncrementFirst ==
    \A b \in DOMAIN sent :
        sent[b].text = RoutesDec =>
            \E a \in 1..(b - 1) : sent[a].text = RoutesInc /\ sent[a].key = sent[b].key

(* C5: once UpsertRoutes of the new route route1 has returned, the routing
   API (while it runs) eventually emits routing_api.total_http_routes:+1|g for
   it; once DeleteRoutes of that route has returned too, the stream eventually
   has that +1 line and later routing_api.total_http_routes:-1|g for the
   route; no -1 line of a route is ever emitted before the route's +1 line. *)
C5_RouteCounted ==
    /\ [](C5_IncrementFirst)
    /\ (sscenario \in {"create", "delete"} /\ spc > 1) ~> (~apiUp \/ Incremented("route1"))
    /\ (sscenario = "delete" /\ spc > 2) ~> (~apiUp \/ IncThenDec("route1"))

\* the spec that deletes the route has passed, on the lines of route1
C5_Witness ==
    /\ sscenario = "delete"
    /\ sphase = "passed"
    /\ IncThenDec("route1")
    /\ \E b \in DOMAIN sent : sent[b].key = "route1" /\ sent[b].type = "Delete"

\* in the spec without DeleteRoutes, every decrement is the expiry of routeExpire
C6_ExpiredOnly ==
    sscenario = "expire" =>
        \A b \in DOMAIN sent :
            sent[b].text = RoutesDec => sent[b].type = "Expire" /\ sent[b].key = "routeExpire"

(* C6: once UpsertRoutes of routeExpire (TTL 1 second) has returned, and with
   no DeleteRoutes call, the stream of the running routing API eventually has
   routing_api.total_http_routes:+1|g for the route and, later,
   routing_api.total_http_routes:-1|g for it, caused by the expiry. *)
C6_RouteExpires ==
    /\ [](C6_ExpiredOnly)
    /\ (sscenario = "expire" /\ spc > 1) ~> (~apiUp \/ IncThenDec("routeExpire"))

C6_Witness ==
    /\ sscenario = "expire"
    /\ sphase = "passed"
    /\ IncThenDec("routeExpire")
    /\ store["routeExpire"] = NoNode

\* with no route of the client, the only route event is the one of the self
\* route, and every absolute gauge comes from the ticker
C7_NotAnEvent ==
    sscenario = "periodic" =>
        /\ Cardinality({j \in DOMAIN sent : sent[j].type # "Tick"}) <= 1
        /\ \A j \in DOMAIN sent : sent[j].text = RoutesOne => sent[j].type = "Tick"

(* C7: with no route added or removed by the client, the running routing API
   that has registered its own route eventually reports
   routing_api.total_http_routes:1|g, and after the first such line eventually
   a second one, while at most one route event (the self route) has been
   reported. *)
C7_PeriodicGauge ==
    /\ [](C7_NotAnEvent)
    /\ (sscenario = "periodic" /\ Registered) ~> (~apiUp \/ Count(RoutesOne) >= 1)
    /\ (sscenario = "periodic" /\ Count(RoutesOne) = 1) ~> (~apiUp \/ Count(RoutesOne) >= 2)

C7_Witness ==
    /\ sscenario = "periodic"
    /\ sphase = "passed"
    /\ Count(RoutesOne) >= 2
    /\ Cardinality({j \in DOMAIN sent : sent[j].type # "Tick"}) = 1

\* every open event stream has its own line, emitted or still to be emitted
C8_OwnLine ==
    (sscenario = "subscribe" /\ sphase = "it") =>
        Count(SubscriptionsInc) + handlers = subs

(* C8: every subscription has its own
   routing_api.total_http_subscriptions:+1|g line; once the 4 event streams of
   the test are open, and while they stay open and the routing API runs, at
   least 4 such lines are eventually emitted. *)
C8_SubscriptionsCounted ==
    /\ [](C8_OwnLine)
    /\ (sscenario = "subscribe" /\ sphase = "it" /\ spc > 4)
           ~> (~apiUp \/ Count(SubscriptionsInc) >= 4)

C8_Witness ==
    /\ sscenario = "subscribe"
    /\ sphase = "passed"
    /\ subs = 0
    /\ Count(SubscriptionsInc) = 4


----------------------------------------------------------------------------
\* the goroutine is at its send and the channel is full
ReaderBlocked ==
    reader.pc = "send" /\ Len(fakeStatsdChan.buf) = StatsChanCap

\* the channel is closed by the goroutine as it returns, and by nothing else
C30_ClosedOnReturn ==
    /\ fakeStatsdChan.closed <=> reader.pc = "returned"
    /\ reader.pc = "read" => reader.tokens = <<>>
    /\ Len(fakeStatsdChan.buf) <= StatsChanCap

\* the tokens of each datagram go to the channel in the order of arrival; the
\* close happens at a failed Read and nothing is sent after it
C30_InOrder ==
    /\ Len(udp') < Len(udp) =>
          /\ reader.pc = "read"
          /\ udp' = Tail(udp)
          /\ reader'.tokens = ScanBuffer(Head(udp))
    /\ Len(fakeStatsdChan'.buf) > Len(fakeStatsdChan.buf) =>
          /\ reader.tokens # <<>>
          /\ fakeStatsdChan'.buf = Append(fakeStatsdChan.buf, Head(reader.tokens))
          /\ reader'.tokens = Tail(reader.tokens)
          /\ ~fakeStatsdChan.closed
    /\ reader'.tokens # reader.tokens =>
          Len(udp') < Len(udp) \/ Len(fakeStatsdChan'.buf) > Len(fakeStatsdChan.buf)
    /\ fakeStatsdChan.closed => fakeStatsdChan'.closed
    /\ (~fakeStatsdChan.closed /\ fakeStatsdChan'.closed) =>
          /\ reader.pc = "read"
          /\ reader'.pc = "returned"

\* C30: the goroutine forwards the lines of the datagrams it reads in arrival
\* order, closes the channel exactly once, at the first Read that fails, sends
\* nothing after the close, and after AfterEach has closed the socket it
\* eventually returns, even when the It block no longer receives.
C30_ReaderGoroutine ==
    /\ [](C30_ClosedOnReturn)
    /\ [][C30_InOrder]_vars
    /\ sockClosed ~> (reader.pc = "returned")

\* the order and the close alone
C30_OrderAndClose ==
    [](C30_ClosedOnReturn) /\ [][C30_InOrder]_vars

\* after AfterEach the goroutine returns unless it is at a send that nothing
\* will receive
C30_ReturnsUnlessBlocked ==
    sockClosed ~> (reader.pc = "returned" \/ ReaderBlocked)

\* AfterEach has run and the goroutine is at its send with the channel full
C30_Witness ==
    /\ sockClosed
    /\ sphase \in {"passed", "done"}
    /\ ReaderBlocked
----------------------------------------------------------------------------
(* Specification of the config loaders: one LoadConfig call in one environment *)

InitConfig ==
    /\ loader \in Loaders
    /\ env \in [EnvVars -> {""} \cup Paths]
    /\ files \in {[p \in Paths |-> IF p = "router_config.json" THEN r ELSE g] :
                     r \in RouterFiles \cup {NoFile, NotJson},
                     g \in RoutingFiles \cup {NoFile, NotJson}}
    /\ lib \in LibAnswers
    /\ cpc = "configPath"
    /\ path = ""
    /\ opened = <<>>
    /\ loadedConfig = ZeroConfig
    /\ panicked = ""
    /\ IdleSave
    /\ IdleVerify
    /\ IdleRoute
    /\ IdleStats
    /\ IdleSmoke
    /\ IdleGroups
    /\ IdleProtocol
    /\ IdleEntries
    /\ IdleJoint
    /\ IdleWatch
    /\ IdleDomains
    /\ IdlePorts
    /\ IdleGrab

NextConfig ==
    \/ configPath /\ UNCHANGED <<saveVars, verifyVars, routeVars, statsVars, smokeVars, groupVars, protoVars, entVars, jointVars, watchVars, domVars, portVars, grabVars>>
    \/ OpenFile /\ UNCHANGED <<saveVars, verifyVars, routeVars, statsVars, smokeVars, groupVars, protoVars, entVars, jointVars, watchVars, domVars, portVars, grabVars>>
    \/ DecodeFile /\ UNCHANGED <<saveVars, verifyVars, routeVars, statsVars, smokeVars, groupVars, protoVars, entVars, jointVars, watchVars, domVars, portVars, grabVars>>
    \/ LibLoadConfig /\ UNCHANGED <<saveVars, verifyVars, routeVars, statsVars, smokeVars, groupVars, protoVars, entVars, jointVars, watchVars, domVars, portVars, grabVars>>
    \/ Validate /\ UNCHANGED <<saveVars, verifyVars, routeVars, statsVars, smokeVars, groupVars, protoVars, entVars, jointVars, watchVars, domVars, portVars, grabVars>>

SpecConfig == InitConfig /\ [][NextConfig]_vars

----------------------------------------------------------------------------
(* Claims about the config loaders *)

\* the first missing item in the order oauth, addresses, apps_domain, api
C11_FirstMissing ==
    IF ~loadedConfig.OAuth THEN "missing configuration oauth"
    ELSE IF loadedConfig.Addresses = <<>> THEN "missing configuration 'addresses'"
    ELSE IF loadedConfig.AppsDomain = "" THEN "missing configuration apps_domain"
    ELSE IF loadedConfig.ApiEndpoint = "" THEN "missing configuration api"
    ELSE ""

(* C11: helpers.LoadConfig (routing helpers) returns only with a loaded
   configuration that has oauth, a non-empty addresses list, a non-empty
   apps_domain and a non-empty api endpoint; with a loaded configuration that
   lacks one of them it never returns, and the panic of its checks names the
   first one missing in the order oauth, addresses, apps_domain, api. *)
C11_RequiredFields ==
    loader = "routing" =>
        /\ cpc = "returned" =>
              /\ loadedConfig.OAuth
              /\ Len(loadedConfig.Addresses) > 0
              /\ loadedConfig.AppsDomain # ""
              /\ loadedConfig.ApiEndpoint # ""
        /\ (cpc = "panicked" /\ opened # <<>> /\ files[path].kind = "json" /\ ~lib.panics) =>
              /\ C11_FirstMissing # ""
              /\ panicked = C11_FirstMissing

\* the checks have panicked on a configuration that lacks more than one item
C11_Witness ==
    /\ loader = "routing"
    /\ cpc = "panicked"
    /\ loadedConfig.OAuth
    /\ loadedConfig.Addresses = <<>>
    /\ loadedConfig.ApiEndpoint = ""
    /\ panicked = "missing configuration 'addresses'"

\* the variable each package's configPath is to read
C12_OwnVariable == IF loader = "router" THEN "ROUTER_API_CONFIG" ELSE "CONFIG"

(* C12: each config loader reads the path from its own environment variable,
   ROUTER_API_CONFIG in the router helpers and CONFIG in the routing helpers:
   the only file it opens is the one that variable names, and when the
   variable is unset or empty LoadConfig panics, naming the variable, before
   any file is opened. *)
C12_PathFromOwnVariable ==
    /\ Len(opened) <= 1
    /\ opened # <<>> => opened[1] = env[C12_OwnVariable] /\ opened[1] # ""
    /\ (env[C12_OwnVariable] = "" /\ cpc # "configPath") =>
          /\ cpc = "panicked"
          /\ opened = <<>>
          /\ panicked = "Must set $" \o C12_OwnVariable
                            \o " to point to an integration config .json file."

\* the routing helpers' loader has panicked for want of CONFIG although
\* ROUTER_API_CONFIG names a file
C12_Witness ==
    /\ loader = "routing"
    /\ env["CONFIG"] = ""
    /\ env["ROUTER_API_CONFIG"] = "integration_config.json"
    /\ files["integration_config.json"].kind = "json"
    /\ cpc = "panicked"
    /\ opened = <<>>

\* C12 as stated: every loader reads the path from ROUTER_API_CONFIG and panics
\* before opening a file when that variable is unset or empty
C12_PathFromRouterApiConfig ==
    /\ opened # <<>> => opened[1] = env["ROUTER_API_CONFIG"]
    /\ (env["ROUTER_API_CONFIG"] = "" /\ cpc # "configPath") =>
          cpc = "panicked" /\ opened = <<>>


----------------------------------------------------------------------------
\* the router helpers' loader has opened and decoded its file
C33_Loaded ==
    /\ loader = "router"
    /\ cpc \in {"panicked", "returned"}
    /\ opened # <<>>
    /\ path \in Paths
    /\ files[path].kind = "json"

\* C33: on a decoded file the router helpers' LoadConfig panics exactly when
\* address is empty or port is 0, naming address first; otherwise it returns
\* Address and Port as the file has them and BBSAddress equal to bbs_api_url
\* when that is not empty and to http://bbs.service.cf.internal:8889 when it
\* is; a file with only address, port and diego_api_url loads without panic.
C33_RouterLoadConfig ==
    C33_Loaded =>
        LET f == files[path]
        IN /\ cpc = "panicked" <=> (f.address = "" \/ f.port = 0)
           /\ cpc = "panicked" =>
                 panicked = IF f.address = "" THEN "missing configuration 'address'"
                            ELSE "missing configuration 'port'"
           /\ cpc = "returned" =>
                 /\ loadedConfig.Address = f.address
                 /\ loadedConfig.Port = f.port
                 /\ loadedConfig.BBSAddress =
                       IF f.bbs_api_url # "" THEN f.bbs_api_url
                       ELSE "http://bbs.service.cf.internal:8889"
           /\ (f.address # "" /\ f.port # 0 /\ f.bbs_api_url = "" /\ f.diego_api_url # "") =>
                 cpc = "returned"

\* the file of the README has been loaded
C33_Witness ==
    /\ C33_Loaded
    /\ files[path].address = "10.244.8.2"
    /\ files[path].port = 9999
    /\ files[path].bbs_api_url = ""
    /\ files[path].diego_api_url = "http://10.244.16.6:8888"
    /\ cpc = "returned"
    /\ loadedConfig.BBSAddress = DEFAULT_BBS_API_URL

\* a file that lacks both address and port has made LoadConfig panic
C33_WitnessPanic ==
    /\ C33_Loaded
    /\ files[path].address = "" /\ files[path].port = 0
    /\ panicked = "missing configuration 'address'"

----------------------------------------------------------------------------
\* C34: whenever helpers.LoadConfig returns, RoutingApiUrl is "https://"
\* followed by the configured api endpoint and Addresses has at least one
\* element, so the smoke test's target (Addresses[0] when lb_configured is
\* false, the domain name when it is true) never indexes an empty list.
C34_UrlAndAddresses ==
    (loader = "routing" /\ cpc = "returned") =>
        /\ loadedConfig.ApiEndpoint = lib.ApiEndpoint
        /\ loadedConfig.RoutingApiUrl = "https://" \o lib.ApiEndpoint
        /\ loadedConfig.Addresses = files[path].addresses
        /\ Len(loadedConfig.Addresses) >= 1
        /\ 1 \in DOMAIN loadedConfig.Addresses
        /\ TargetAddr(loadedConfig, FALSE, "tcp.example.com") = files[path].addresses[1]
        /\ TargetAddr(loadedConfig, TRUE, "tcp.example.com") = "tcp.example.com"

\* helpers.LoadConfig has returned a configuration with one address
C34_Witness ==
    /\ loader = "routing"
    /\ cpc = "returned"
    /\ loadedConfig.Addresses = <<"10.244.14.2">>
    /\ loadedConfig.RoutingApiUrl = "https://api.bosh-lite.com"
----------------------------------------------------------------------------
(* Specification of the smoke test: one It block runs against the platform *)

InitSmoke ==
    /\ smokeVersion \in {"early", "late"}
    /\ lbConfigured \in BOOLEAN
    /\ mpc = "push"
    /\ appStarted = FALSE
    /\ ccRoute = 0
    /\ routerTable = {}
    /\ appUrl = NoUrl
    /\ resp1 = NoResponse
    /\ resp2 = NoResponse
    /\ IdleSave
    /\ IdleVerify
    /\ IdleRoute
    /\ IdleStats
    /\ IdleConfig
    /\ IdleGroups
    /\ IdleProtocol
    /\ IdleEntries
    /\ IdleJoint
    /\ IdleWatch
    /\ IdleDomains
    /\ IdlePorts
    /\ IdleGrab

NextSmoke ==
    \/ PushAppNoStart /\ UNCHANGED <<saveVars, verifyVars, routeVars, statsVars, cfgVars, groupVars, protoVars, entVars, jointVars, watchVars, domVars, portVars, grabVars>>
    \/ MapRandomTcpRouteToApp /\ UNCHANGED <<saveVars, verifyVars, routeVars, statsVars, cfgVars, groupVars, protoVars, entVars, jointVars, watchVars, domVars, portVars, grabVars>>
    \/ StartApp /\ UNCHANGED <<saveVars, verifyVars, routeVars, statsVars, cfgVars, groupVars, protoVars, entVars, jointVars, watchVars, domVars, portVars, grabVars>>
    \/ GetPortFromAppsInfo /\ UNCHANGED <<saveVars, verifyVars, routeVars, statsVars, cfgVars, groupVars, protoVars, entVars, jointVars, watchVars, domVars, portVars, grabVars>>
    \/ FirstGet /\ UNCHANGED <<saveVars, verifyVars, routeVars, statsVars, cfgVars, groupVars, protoVars, entVars, jointVars, watchVars, domVars, portVars, grabVars>>
    \/ DeleteTcpRoute /\ UNCHANGED <<saveVars, verifyVars, routeVars, statsVars, cfgVars, groupVars, protoVars, entVars, jointVars, watchVars, domVars, portVars, grabVars>>
    \/ SecondGet /\ UNCHANGED <<saveVars, verifyVars, routeVars, statsVars, cfgVars, groupVars, protoVars, entVars, jointVars, watchVars, domVars, portVars, grabVars>>
    \/ SmokeAfterEach /\ UNCHANGED <<saveVars, verifyVars, routeVars, statsVars, cfgVars, groupVars, protoVars, entVars, jointVars, watchVars, domVars, portVars, grabVars>>
    \/ RouterSync /\ UNCHANGED <<saveVars, verifyVars, routeVars, statsVars, cfgVars, groupVars, protoVars, entVars, jointVars, watchVars, domVars, portVars, grabVars>>

\* the It block and the router keep running
SpecSmoke == InitSmoke /\ [][NextSmoke]_vars /\ WF_vars(NextSmoke)

----------------------------------------------------------------------------
(* Claims about the smoke test *)

\* the It block is past the Expect of the first GET
C13_FirstGetPassed == mpc \in {"delete", "get2", "passed", "done"}

\* the It block is past DeleteTcpRoute
C13_RouteDeleted ==
    mpc \in {"get2", "passed", "done"} \/ (mpc \in {"failed", "doneFailed"} /\ resp2 # NoResponse)

\* what the GETs of the It block have obtained
C13_Answers ==
    /\ C13_FirstGetPassed =>
          /\ resp1 = [err |-> FALSE, status |-> StatusOK]
          /\ appUrl.port \in RandomPorts
    /\ (mpc = "get1" /\ Serving(appUrl.port)) =>
          /\ appUrl.port = ccRoute
          /\ GetAnswers(appUrl) = {[err |-> FALSE, status |-> StatusOK]}
    /\ (C13_RouteDeleted /\ appStarted) => appUrl.port \notin DesiredTable
    /\ (C13_RouteDeleted /\ ~Serving(appUrl.port)) =>
          \A r \in GetAnswers(appUrl) : r.err \/ r.status # StatusOK
    /\ mpc \in {"passed", "done"} => (resp2.err \/ resp2.status # StatusOK)

(* C13: in the smoke test, with a random TCP route mapped to the app and the
   app started, the router comes to forward the port and a GET to address:port
   then returns 200 (the It block goes on only with that 200); after the route
   is deleted the router stops forwarding the port for good, and from then on a
   GET to the same address:port obtains no 200 from the app. *)
C13_SmokeRoute ==
    /\ [](C13_Answers)
    /\ (mpc = "port") ~> (Serving(ccRoute) \/ mpc \in {"failed", "doneFailed"})
    /\ C13_RouteDeleted ~> [](~Serving(appUrl.port))

\* the It block has passed: 200 before the delete, no 200 after it
C13_Witness ==
    /\ mpc = "done"
    /\ resp1.status = StatusOK
    /\ resp2.err
    /\ appUrl.port = 1025

----------------------------------------------------------------------------
(* Specification of the router groups: concurrent SaveRouterGroup callers, *)
(* ReadRouterGroup calls and a foreign writer on one etcd                   *)

InitGroups ==
    /\ IdleGroups
    /\ IdleSave
    /\ IdleVerify
    /\ IdleRoute
    /\ IdleStats
    /\ IdleConfig
    /\ IdleSmoke
    /\ IdleProtocol
    /\ IdleEntries
    /\ IdleJoint
    /\ IdleWatch
    /\ IdleDomains
    /\ IdlePorts
    /\ IdleGrab

NextGroups ==
    \/ (\E c \in Callers : \E guid \in GroupGuids \cup {""} : \E n \in GroupNames :
           GroupSaveStart(c, [Guid |-> guid, Name |-> n]))
       /\ UNCHANGED <<saveVars, verifyVars, routeVars, statsVars, cfgVars, smokeVars, protoVars, entVars, jointVars, watchVars, domVars, portVars, grabVars>>
    \/ (\E c \in Callers : GroupSaveRead(c))
       /\ UNCHANGED <<saveVars, verifyVars, routeVars, statsVars, cfgVars, smokeVars, protoVars, entVars, jointVars, watchVars, domVars, portVars, grabVars>>
    \/ (\E c \in Callers : GroupSaveGet(c))
       /\ UNCHANGED <<saveVars, verifyVars, routeVars, statsVars, cfgVars, smokeVars, protoVars, entVars, jointVars, watchVars, domVars, portVars, grabVars>>
    \/ (\E c \in Callers : GroupSaveSet(c))
       /\ UNCHANGED <<saveVars, verifyVars, routeVars, statsVars, cfgVars, smokeVars, protoVars, entVars, jointVars, watchVars, domVars, portVars, grabVars>>
    \/ (\E guid \in GroupGuids \cup {""} : ReadRouterGroupCall(guid))
       /\ UNCHANGED <<saveVars, verifyVars, routeVars, statsVars, cfgVars, smokeVars, protoVars, entVars, jointVars, watchVars, domVars, portVars, grabVars>>
    \/ (\E g \in GroupGuids : GroupForeignWrite(g))
       /\ UNCHANGED <<saveVars, verifyVars, routeVars, statsVars, cfgVars, smokeVars, protoVars, entVars, jointVars, watchVars, domVars, portVars, grabVars>>

SpecGroups == InitGroups /\ [][NextGroups]_vars

----------------------------------------------------------------------------
(* Claims about the router groups *)

\* whether a router group was stored under the guid of the last ReadRouterGroup
C14_Stored == rgRead.stored.exists

\* C14: ReadRouterGroup returns the zero-value RouterGroup and a nil error
\* when no router group with the given guid is stored, the stored group when
\* there is one, and a non-nil error only when the store failed with an error
\* other than key-not-found or the stored value cannot be decoded.
C14_ReadRouterGroup ==
    rgRead.called =>
        /\ (~rgRead.storeErr /\ ~C14_Stored)
              => (rgRead.group = ZeroGroup /\ rgRead.err = "nil")
        /\ (~rgRead.storeErr /\ C14_Stored /\ rgRead.stored.ok)
              => (rgRead.group = rgRead.stored.value /\ rgRead.err = "nil")
        /\ rgRead.err # "nil"
              => (rgRead.storeErr \/ (C14_Stored /\ ~rgRead.stored.ok))

\* C14 for a guid that is not empty
C14_ReadRouterGroupOfGuid ==
    rgRead.guid # "" => C14_ReadRouterGroup

\* a stored group was read back, and a guid nobody stored was asked for
C14_Witness ==
    /\ rgRead.called /\ rgRead.guid = "g1" /\ ~rgRead.storeErr
    /\ rgRead.group = [Guid |-> "g1", Name |-> "n2"] /\ rgRead.err = "nil"
    /\ ~rgStore["g2"].exists

----------------------------------------------------------------------------
(* Specification of sequential SaveRouterGroup calls: a call starts only   *)
(* when no other call is in progress, and nobody else writes the store     *)

GroupSaveStartAlone(c, rg) ==
    /\ \A d \in Callers : rgpc[d] \in {"idle", "done"}
    /\ GroupSaveStart(c, rg)

NextGroupsSeq ==
    \/ (\E c \in Callers : \E guid \in GroupGuids \cup {""} : \E n \in GroupNames :
           GroupSaveStartAlone(c, [Guid |-> guid, Name |-> n]))
       /\ UNCHANGED <<saveVars, verifyVars, routeVars, statsVars, cfgVars, smokeVars, protoVars, entVars, jointVars, watchVars, domVars, portVars, grabVars>>
    \/ (\E c \in Callers : GroupSaveRead(c))
       /\ UNCHANGED <<saveVars, verifyVars, routeVars, statsVars, cfgVars, smokeVars, protoVars, entVars, jointVars, watchVars, domVars, portVars, grabVars>>
    \/ (\E c \in Callers : GroupSaveGet(c))
       /\ UNCHANGED <<saveVars, verifyVars, routeVars, statsVars, cfgVars, smokeVars, protoVars, entVars, jointVars, watchVars, domVars, portVars, grabVars>>
    \/ (\E c \in Callers : GroupSaveSet(c))
       /\ UNCHANGED <<saveVars, verifyVars, routeVars, statsVars, cfgVars, smokeVars, protoVars, entVars, jointVars, watchVars, domVars, portVars, grabVars>>

SpecGroupsSeq == InitGroups /\ [][NextGroupsSeq]_vars

\* the router groups the store holds
StoredGuids == {g \in GroupGuids : rgStore[g].exists /\ rgStore[g].ok}

\* no two stored router groups with different guids have the same name
UniqueNames ==
    \A g \in StoredGuids : \A h \in StoredGuids :
        g # h => rgStore[g].value.Name # rgStore[h].value.Name

\* a step leaves the name of every stored router group as it is
NameKept ==
    \A g \in StoredGuids :
        (rgStore'[g].exists /\ rgStore'[g].ok) => rgStore'[g].value.Name = rgStore[g].value.Name

\* a stored group with another guid has the name of the request
NameTaken(rg) ==
    \E g \in StoredGuids : g # rg.Guid /\ rgStore[g].value.Name = rg.Name

\* the guid of the request is stored under another name
NameDiffers(rg) ==
    rg.Guid \in StoredGuids /\ rgStore[rg.Guid].value.Name # rg.Name

\* a request that has to be refused is refused with its error, and a call
\* that was refused has not reached its Set
C23_Rejected ==
    \A c \in Callers :
        /\ (rgpc[c] = "done" /\ rgArg[c].Guid = "") => rgResult[c] = "MissingGuid"
        /\ (rgpc[c] \in {"get", "set"}) => ~NameTaken(rgArg[c])
        /\ (rgpc[c] = "set") => ~NameDiffers(rgArg[c])

\* only the Set of a call that was not refused changes the store
C23_WritesNothing ==
    \A c \in Callers :
        (rgpc[c] # "set" \/ rgResult'[c] \in {"MissingGuid", "UniqueField", "NonUpdatableField"})
            => (rgpc'[c] = rgpc[c] \/ rgStore' = rgStore)

\* C23: SaveRouterGroup refuses a request, writing nothing, when the guid is
\* empty, when another guid is stored with the same name, or when the guid is
\* stored with another name; so after sequential calls the stored names are
\* unique across guids and the name stored for a guid never changes.
C23_SequentialSaves ==
    /\ [](C23_Rejected /\ UniqueNames)
    /\ [][C23_WritesNothing /\ NameKept]_vars

\* the part of C23 about the uniqueness of names across guids
C23_UniqueAcrossGuids ==
    /\ [](UniqueNames /\ \A c \in Callers : rgpc[c] \in {"get", "set"} => ~NameTaken(rgArg[c]))
    /\ [][C23_WritesNothing]_vars

\* the name stored for g1 was n1 and a later call, alone, has made it n2
C23_Witness ==
    /\ rgStore["g1"].exists /\ rgStore["g1"].value.Name = "n2"
    /\ \E c \in Callers : rgResult[c] = "nil" /\ rgArg[c] = [Guid |-> "g1", Name |-> "n1"]
    /\ \E c \in Callers : rgpc[c] = "done" /\ rgResult[c] = "nil"
                          /\ rgArg[c] = [Guid |-> "g1", Name |-> "n2"]

\* C24: under any interleaving of concurrent SaveRouterGroup calls no two
\* stored router groups with different guids have the same name, and no
\* stored group's name differs from the name it was first stored with.
C24_ConcurrentSaves ==
    /\ [](UniqueNames)
    /\ [][NameKept]_vars

\* two callers have stored the same name under two guids
C24_Witness ==
    /\ rgStore["g1"].exists /\ rgStore["g2"].exists
    /\ rgStore["g1"].ok /\ rgStore["g2"].ok
    /\ rgStore["g1"].value.Name = rgStore["g2"].value.Name
    /\ \A c \in Callers : rgpc[c] = "done" /\ rgResult[c] = "nil"
----------------------------------------------------------------------------
(* Specification of the two save functions against one answering KeysAPI *)

InitProtocol ==
    /\ IdleProtocol
    /\ IdleSave
    /\ IdleVerify
    /\ IdleRoute
    /\ IdleStats
    /\ IdleConfig
    /\ IdleSmoke
    /\ IdleGroups
    /\ IdleEntries
    /\ IdleJoint
    /\ IdleWatch
    /\ IdleDomains
    /\ IdlePorts
    /\ IdleGrab

ProtoAnswer ==
    /\ \/ \E out \in KeysAPIGetAnswers : \E tagOk \in BOOLEAN : ProtoGet(out, tagOk)
       \/ \E e \in KeysAPISetAnswers : ProtoSet(e)
    /\ UNCHANGED <<saveVars, verifyVars, routeVars, statsVars, cfgVars, smokeVars, groupVars, entVars, jointVars, watchVars, domVars, portVars, grabVars>>

NextProtocol ==
    \/ (\E ttl \in CallTTLs : ProtoStart(ttl))
       /\ UNCHANGED <<saveVars, verifyVars, routeVars, statsVars, cfgVars, smokeVars, groupVars, entVars, jointVars, watchVars, domVars, portVars, grabVars>>
    \/ (\E out \in KeysAPIGetAnswers : \E tagOk \in BOOLEAN : ProtoGet(out, tagOk))
       /\ UNCHANGED <<saveVars, verifyVars, routeVars, statsVars, cfgVars, smokeVars, groupVars, entVars, jointVars, watchVars, domVars, portVars, grabVars>>
    \/ (\E e \in KeysAPISetAnswers : ProtoSet(e))
       /\ UNCHANGED <<saveVars, verifyVars, routeVars, statsVars, cfgVars, smokeVars, groupVars, entVars, jointVars, watchVars, domVars, portVars, grabVars>>

\* every call of the KeysAPI returns
SpecProtocol == InitProtocol /\ [][NextProtocol]_vars /\ WF_vars(ProtoAnswer)

----------------------------------------------------------------------------
(* Claims about the retry protocol *)

\* the operations of one kind a call has issued so far
OpsOf(c, op) == {j \in 1..Len(c.trace) : c.trace[j].op = op}

\* the error of the j-th answer a call received
ErrOf(c, j) == c.trace[j].answer[2]

\* the compare-and-swap failures a call was answered with before its j-th operation
FailuresBefore(c, j) == {h \in 1..(j - 1) : ErrOf(c, h) = "TestFailed"}

\* the last answer is an error that is neither a compare failure nor, when
\* skipKeyNotFound is set, the key-not-found of a Get
C15_OtherError(c, skipKeyNotFound) ==
    /\ c.trace # << >>
    /\ ErrOf(c, Len(c.trace)) \notin {"nil", "TestFailed"}
    /\ ~(skipKeyNotFound /\ c.trace[Len(c.trace)].op = "Get"
           /\ ErrOf(c, Len(c.trace)) = "KeyNotFound")

C15_Rule(skipKeyNotFound) ==
    \A f \in SaveFns :
        LET c == call[f]
        IN /\ (c.pc = "get" /\ c.trace # << >>) => ErrOf(c, Len(c.trace)) = "TestFailed"
           /\ C15_OtherError(c, skipKeyNotFound) =>
                 (c.pc = "done" /\ c.result = ErrOf(c, Len(c.trace)))

\* a call that has returned issues no further Get or Set
C15_NothingAfterReturn ==
    \A f \in SaveFns :
        call[f].pc = "done" => (call'[f] = call[f] \/ call'[f].trace = << >>)

\* C15 as stated: SaveRoute and SaveTcpRouteMapping retry only on a
\* compare-and-swap failure; any other error from Get or Set is returned to
\* the caller at once and no further Get or Set is issued.
C15_AnyOtherErrorReturned ==
    [](C15_Rule(FALSE)) /\ [][C15_NothingAfterReturn]_vars

\* C15, amended: the functions retry only on a compare-and-swap failure; any
\* other error from Set, and any error from Get other than key-not-found, is
\* returned to the caller at once and no further Get or Set is issued.
C15_RetryOnlyOnCompareFailure ==
    [](C15_Rule(TRUE)) /\ [][C15_NothingAfterReturn]_vars

\* a create was rejected because the node exists, and that error was returned
C15_Witness ==
    \A f \in SaveFns :
        /\ call[f].pc = "done" /\ call[f].result = "NodeExist"
        /\ Len(call[f].trace) = 2
        /\ call[f].trace[2].opts.PrevExist = "false"

\* at most maxRetries + 1 Gets and Sets, ErrorConflict after that many compare failures
C16_Bounded ==
    \A f \in SaveFns :
        LET c == call[f]
        IN /\ Cardinality(OpsOf(c, "Get")) <= maxRetries + 1
           /\ Cardinality(OpsOf(c, "Set")) <= maxRetries + 1
           /\ Cardinality(FailuresBefore(c, Len(c.trace) + 1)) <= maxRetries + 1
           /\ Cardinality(FailuresBefore(c, Len(c.trace) + 1)) = maxRetries + 1
                 => (c.pc = "done" /\ c.result = "ErrorConflict")

\* C16: a save terminates after at most maxRetries + 1 = 4 attempts, that is
\* at most 4 Gets and 4 Sets; when every attempt is answered with a
\* compare-and-swap failure it returns ErrorConflict after the 4th, whatever
\* the other writers of the key do.
C16_Terminates ==
    /\ [](C16_Bounded)
    /\ \A f \in SaveFns : (call[f].pc = "get") ~> (call[f].pc = "done")

\* four updates, each one beaten by another writer
C16_Witness ==
    \A f \in SaveFns :
        /\ call[f].pc = "done" /\ call[f].result = "ErrorConflict"
        /\ Cardinality(OpsOf(call[f], "Get")) = 4
        /\ Cardinality(OpsOf(call[f], "Set")) = 4

\* C17: a key found absent on the first attempt is created, with a Set that
\* is conditional on the key not existing; a key found absent after a
\* compare-and-swap failure makes the save return ErrorConflict with no Set,
\* so no create follows a compare-and-swap failure.
C17_AbsentKey ==
    \A f \in SaveFns :
        LET c == call[f]
        IN /\ \A j \in OpsOf(c, "Get") :
                 ErrOf(c, j) = "KeyNotFound" =>
                    IF FailuresBefore(c, j) = {}
                    THEN \/ j = Len(c.trace) /\ c.pc = "create"
                         \/ j = Len(c.trace) /\ c.pc = "done" /\ c.result = "TagError"
                         \/ /\ j < Len(c.trace)
                            /\ c.trace[j + 1].op = "Set"
                            /\ c.trace[j + 1].opts = createOpts(c.ttl)
                    ELSE j = Len(c.trace) /\ c.pc = "done" /\ c.result = "ErrorConflict"
           /\ \A j \in OpsOf(c, "Set") :
                 c.trace[j].opts.PrevExist = "false" => FailuresBefore(c, j) = {}
           /\ c.pc = "create" => c.retries = 0

\* an update lost the race, and the key was gone at the next attempt
C17_Witness ==
    \A f \in SaveFns :
        /\ call[f].pc = "done" /\ call[f].result = "ErrorConflict"
        /\ Len(call[f].trace) = 3
        /\ call[f].trace[2].op = "Set" /\ ErrOf(call[f], 2) = "TestFailed"
        /\ call[f].trace[3].op = "Get" /\ ErrOf(call[f], 3) = "KeyNotFound"

\* a Set of this call was answered without an error
C18_Wrote(c) == \E j \in OpsOf(c, "Set") : ErrOf(c, j) = "nil"

\* C18: SaveRoute and SaveTcpRouteMapping return nil only if a Set of the
\* same call succeeded, whatever pair (response, error) the Get returned.
C18_NilOnlyAfterSet ==
    \A f \in SaveFns :
        (call[f].pc = "done" /\ call[f].result = "nil") => C18_Wrote(call[f])

\* C18 for the calls in which no Get returned a nil response with a nil error
C18_NilOnlyAfterSetOfClient ==
    \A f \in SaveFns :
        (\A j \in OpsOf(call[f], "Get") : call[f].trace[j].answer # <<TRUE, "nil">>)
            => ((call[f].pc = "done" /\ call[f].result = "nil") => C18_Wrote(call[f]))

\* nil returned after a Get that gave neither a response nor an error
C18_Witness ==
    \A f \in SaveFns :
        /\ call[f].pc = "done" /\ call[f].result = "nil"
        /\ Len(call[f].trace) = 1
        /\ call[f].trace[1].answer = <<TRUE, "nil">>

\* C20: against the same answers of the store SaveRoute and
\* SaveTcpRouteMapping issue the same Gets and Sets, with the same conditions
\* and TTL, and return the same outcome.
C20_SameProtocol ==
    call["SaveRoute"] = call["SaveTcpRouteMapping"]

\* both gave up with ErrorConflict after the retries were used up, and both
\* wrote on the second attempt of another call
C20_Witness ==
    /\ call["SaveRoute"].result = "ErrorConflict"
    /\ call["SaveTcpRouteMapping"].result = "ErrorConflict"
    /\ call["SaveRoute"].retries = maxRetries + 1
    /\ call["SaveTcpRouteMapping"].retries = maxRetries + 1
    /\ call["SaveRoute"].ttl = RouteExpireTTL
    /\ Len(call["SaveRoute"].trace) = 2 * (maxRetries + 1)
----------------------------------------------------------------------------
(* Specification of the delete and list functions: any content of the      *)
(* store to begin with, then deletes and lists in any order                *)

\* a route as SaveRoute leaves it, and a value that is not a route
StoredRoute(m) ==
    [exists |-> TRUE, ok |-> TRUE, guid |-> m, tagIndex |-> 0, mindex |-> m, ttl |-> 0]

StoredOther(m) ==
    [exists |-> TRUE, ok |-> FALSE, guid |-> 0, tagIndex |-> 0, mindex |-> m, ttl |-> 0]

StoredGroups ==
    {NoGroupNode, [exists |-> TRUE, dir |-> FALSE, ok |-> FALSE, value |-> ZeroGroup]}
    \cup {[exists |-> TRUE, dir |-> FALSE, ok |-> TRUE, value |-> [Guid |-> "g1", Name |-> n]] :
             n \in GroupNames}

InitEntries ==
    /\ store \in {[k \in Keys |-> IF k = "route1" THEN a ELSE IF k = "routeExpire" THEN b
                                  ELSE NoNode] :
                     a \in {NoNode, StoredRoute(1), StoredOther(1)},
                     b \in {NoNode, StoredRoute(2), StoredOther(2)}}
    /\ etcdIndex = 2
    /\ fn = "SaveRoute"
    /\ pc = [p \in Savers |-> "idle"]
    /\ retries = [p \in Savers |-> 0]
    /\ resp = [p \in Savers |-> NoNode]
    /\ arg = [p \in Savers |-> [key |-> "route1", ttl |-> Route1TTL]]
    /\ result = [p \in Savers |-> "none"]
    /\ lastWrite = NoWrite
    /\ tcpStore \in [TcpKeys -> EntryNodes]
    /\ lastDelete = NoDelete
    /\ lastRead = NoList
    /\ rgStore \in {[g \in GroupGuids |-> IF g = "g1" THEN a ELSE NoGroupNode] :
                       a \in StoredGroups}
    /\ rgpc = [c \in Callers |-> "idle"]
    /\ rgArg = [c \in Callers |-> ZeroGroup]
    /\ rgResult = [c \in Callers |-> "none"]
    /\ rgRead = NoRead
    /\ IdleVerify
    /\ IdleRoute
    /\ IdleStats
    /\ IdleConfig
    /\ IdleSmoke
    /\ IdleProtocol
    /\ IdleJoint
    /\ IdleWatch
    /\ IdleDomains
    /\ IdlePorts
    /\ IdleGrab

NextEntries ==
    \/ (\E k \in {"route1", "routeExpire"} : DeleteRouteCall(k))
       /\ UNCHANGED <<verifyVars, routeVars, statsVars, cfgVars, smokeVars, groupVars, protoVars, jointVars, watchVars, domVars, portVars, grabVars>>
    \/ (\E k \in {"route1", "routeExpire"} : DeleteRouteFailure(k))
       /\ UNCHANGED <<verifyVars, routeVars, statsVars, cfgVars, smokeVars, groupVars, protoVars, jointVars, watchVars, domVars, portVars, grabVars>>
    \/ (\E k \in TcpKeys : \E failed \in BOOLEAN : DeleteTcpRouteMapping(k, failed))
       /\ UNCHANGED <<verifyVars, routeVars, statsVars, cfgVars, smokeVars, groupVars, protoVars, jointVars, watchVars, domVars, portVars, grabVars>>
    \/ (\E failed \in BOOLEAN : ReadRoutesCall(failed))
       /\ UNCHANGED <<verifyVars, routeVars, statsVars, cfgVars, smokeVars, groupVars, protoVars, jointVars, watchVars, domVars, portVars, grabVars>>
    \/ (\E failed \in BOOLEAN : ReadTcpRouteMappingsCall(failed))
       /\ UNCHANGED <<verifyVars, routeVars, statsVars, cfgVars, smokeVars, groupVars, protoVars, jointVars, watchVars, domVars, portVars, grabVars>>
    \/ (\E failed \in BOOLEAN : ReadRouterGroupsCall(failed))
       /\ UNCHANGED <<verifyVars, routeVars, statsVars, cfgVars, smokeVars, groupVars, protoVars, jointVars, watchVars, domVars, portVars, grabVars>>

SpecEntries == InitEntries /\ [][NextEntries]_vars

----------------------------------------------------------------------------
(* Claims about the delete and list functions *)

\* C21: DeleteRoute and DeleteTcpRouteMapping return nil when the key was
\* deleted, a DBError of type KeyNotFound when the key does not exist, which
\* leaves the store as it was (so the second of two deletes of one key in a
\* row fails), and any other store error as it is.
C21_DeleteOutcome ==
    lastDelete.called =>
        /\ (~lastDelete.failed /\ lastDelete.existed) =>
              (lastDelete.err = "nil" /\ ~lastDelete.exists)
        /\ (~lastDelete.failed /\ ~lastDelete.existed) =>
              (lastDelete.err = "DBError.KeyNotFound" /\ lastDelete.kept)
        /\ lastDelete.failed => (lastDelete.err = "Other" /\ lastDelete.kept)
        /\ lastDelete.err = "nil" => (~lastDelete.failed /\ lastDelete.existed)
        /\ (lastDelete.prev.err = "nil" /\ lastDelete.prev.key = lastDelete.key
              /\ ~lastDelete.failed) =>
              (lastDelete.err = "DBError.KeyNotFound" /\ lastDelete.kept)

\* a stored mapping deleted twice in a row: the second delete found nothing
C21_Witness ==
    /\ lastDelete.fn = "DeleteTcpRouteMapping"
    /\ lastDelete.err = "DBError.KeyNotFound"
    /\ lastDelete.prev.err = "nil" /\ lastDelete.prev.key = lastDelete.key
    /\ lastDelete.kept

\* C22: ReadRoutes and ReadTcpRouteMappings always return a nil error, and
\* either every stored entry or, when the store fails or one entry cannot be
\* decoded, the empty list; ReadRouterGroups returns the empty list with a
\* nil error when the key is not found and hands on every other store error
\* and every decoding error.
C22_Lists ==
    lastRead.called =>
        IF lastRead.fn \in {"ReadRoutes", "ReadTcpRouteMappings"}
        THEN /\ lastRead.err = "nil"
             /\ lastRead.list \in {{}, lastRead.stored}
             /\ (lastRead.failed \/ lastRead.bad) => lastRead.list = {}
             /\ ~(lastRead.failed \/ lastRead.bad) => lastRead.list = lastRead.stored
        ELSE /\ lastRead.failed => (lastRead.err = "Other" /\ lastRead.list = {})
             /\ (~lastRead.failed /\ lastRead.bad) =>
                   (lastRead.err = "Unmarshal" /\ lastRead.list = {})
             /\ (~lastRead.failed /\ ~lastRead.bad) =>
                   (lastRead.err = "nil" /\ lastRead.list = lastRead.stored)

\* two mappings are stored, one of them undecodable, and the list came back
\* empty without an error
C22_Witness ==
    /\ lastRead.fn = "ReadTcpRouteMappings"
    /\ ~lastRead.failed /\ lastRead.bad
    /\ Cardinality(lastRead.stored) = 2
    /\ lastRead.list = {} /\ lastRead.err = "nil"
----------------------------------------------------------------------------
(* Specification of NewJointDB: any two arguments, then any operations *)

InitJoint ==
    /\ jargs \in [etcdDatabase : DBKinds, sqlDatabase : DBKinds]
    /\ jdb = NoJoint
    /\ jcall = NoJointCall
    /\ IdleSave
    /\ IdleVerify
    /\ IdleRoute
    /\ IdleStats
    /\ IdleConfig
    /\ IdleSmoke
    /\ IdleGroups
    /\ IdleProtocol
    /\ IdleEntries
    /\ IdleWatch
    /\ IdleDomains
    /\ IdlePorts
    /\ IdleGrab

NextJoint ==
    \/ NewJointDB
       /\ UNCHANGED <<saveVars, verifyVars, routeVars, statsVars, cfgVars, smokeVars, groupVars, protoVars, entVars, watchVars, domVars, portVars, grabVars>>
    \/ (\E op \in DBOps : JointCall(op))
       /\ UNCHANGED <<saveVars, verifyVars, routeVars, statsVars, cfgVars, smokeVars, groupVars, protoVars, entVars, watchVars, domVars, portVars, grabVars>>

SpecJoint == InitJoint /\ [][NextJoint]_vars

----------------------------------------------------------------------------
\* C25: NewJointDB fails unless its first argument is the etcd implementation
\* and its second is nil or the SQL implementation; on the DB it returns the
\* three router group operations are served by the SQL database exactly when
\* one was supplied, every other operation by etcd.
C25_JointDB ==
    /\ jdb # NoJoint =>
          /\ jdb.built <=> (jargs.etcdDatabase = "etcd" /\ jargs.sqlDatabase \in {"nil", "sql"})
          /\ jdb.built <=> jdb.err = "nil"
    /\ \A op \in DBOps :
          jcall[op] # "none" =>
             /\ jdb.built
             /\ jcall[op] = "sql" <=> (op \in RouterGroupOps /\ jargs.sqlDatabase = "sql")
             /\ jcall[op] = "etcd" <=> ~(op \in RouterGroupOps /\ jargs.sqlDatabase = "sql")

\* with a SQL database supplied, a router group was read from it and a route
\* from etcd
C25_Witness ==
    /\ jdb.built /\ jargs.sqlDatabase = "sql"
    /\ jcall["ReadRouterGroup"] = "sql"
    /\ jcall["ReadRoutes"] = "etcd"
----------------------------------------------------------------------------
(* Specification of one watch: the dispatcher, the store's answers, the
   consumer and the cancellation *)

OtherGroupsOfWatch ==
    <<saveVars, verifyVars, routeVars, statsVars, cfgVars, smokeVars, groupVars, protoVars, entVars, jointVars, domVars, portVars, grabVars>>

InitWatch ==
    /\ IdleWatch
    /\ IdleSave
    /\ IdleVerify
    /\ IdleRoute
    /\ IdleStats
    /\ IdleConfig
    /\ IdleSmoke
    /\ IdleGroups
    /\ IdleProtocol
    /\ IdleEntries
    /\ IdleJoint
    /\ IdleDomains
    /\ IdlePorts
    /\ IdleGrab

\* the steps of the dispatcher goroutine
DispatchStep ==
    \/ (\E f \in BOOLEAN : WatcherNextResponse(f))
       /\ UNCHANGED OtherGroupsOfWatch
    \/ (\E err \in NextErrors : WatcherNextError(err))
       /\ UNCHANGED OtherGroupsOfWatch
    \/ DispatchSendEvent
       /\ UNCHANGED OtherGroupsOfWatch
    \/ DispatchSendError
       /\ UNCHANGED OtherGroupsOfWatch
    \/ DispatchReturn
       /\ UNCHANGED OtherGroupsOfWatch

NextWatch ==
    \/ (\E filter \in WatchFilters : WatchRouteChanges(filter))
       /\ UNCHANGED OtherGroupsOfWatch
    \/ DispatchStep
    \/ (\E by \in {"cancel", "CancelWatches"} : WatchCancel(by))
       /\ UNCHANGED OtherGroupsOfWatch
    \/ ConsumerStop
       /\ UNCHANGED OtherGroupsOfWatch

SpecWatch == InitWatch /\ [][NextWatch]_vars /\ WF_vars(DispatchStep)

\* the positions in wrecv of the values received from the error channel
ErrorsReceived == {j \in DOMAIN wrecv : wrecv[j].ch = "errors"}

----------------------------------------------------------------------------
\* C26: for each WatchRouteChanges call the dispatcher sends at most one value
\* on the error channel and no event after it, closes both channels exactly
\* once when it stops and not before, and sends no error at all when the watch
\* stopped because its context was cancelled.
C26_OneErrorThenClosed ==
    /\ Cardinality(ErrorsReceived) <= 1
    /\ \A j \in ErrorsReceived : j = Len(wrecv)
    /\ wclosed.events <= 1 /\ wclosed.errors <= 1
    /\ wpc = "done" <=> (wclosed.events = 1 /\ wclosed.errors = 1)
    /\ wpc # "done" => (wclosed.events = 0 /\ wclosed.errors = 0)
    /\ (wpc \in {"return", "done"} /\ werr = "context.Canceled") => ErrorsReceived = {}
    /\ (wpc \in {"return", "done"} /\ werr # "context.Canceled") => ErrorsReceived # {}

\* a watch that delivered an event, then an error, and closed its channels
C26_Witness ==
    /\ wpc = "done"
    /\ Len(wrecv) = 2
    /\ wrecv[1].ch = "events" /\ wrecv[2].ch = "errors"
    /\ wclosed = [events |-> 1, errors |-> 1]

\* a watch that stopped on the cancellation of its context
C26_WitnessCancelled ==
    /\ wpc = "done"
    /\ werr = "context.Canceled"
    /\ wrecv # <<>>
    /\ wclosed = [events |-> 1, errors |-> 1]

----------------------------------------------------------------------------
\* C27: when watcher.Next returns 'event index cleared' the dispatcher creates
\* a new watcher on the same key and goes on calling Next, with nothing sent
\* and nothing closed; every other error of watcher.Next ends the watch.
C27_Step ==
    werr' # werr \/ watchers' # watchers \/ (wpc = "next" /\ wpc' # "next") =>
        /\ (wpc = "next" /\ werr' = "ErrorCodeEventIndexCleared") =>
              /\ watchers' = Append(watchers, watchers[1])
              /\ wpc' = "next"
              /\ wrecv' = wrecv /\ wclosed' = wclosed
        /\ (wpc = "next" /\ werr' \in NextErrors \ {"ErrorCodeEventIndexCleared"}) =>
              /\ wpc' \in {"sendError", "return"}
              /\ watchers' = watchers
        /\ wpc \in {"sendError", "return", "done"} =>
              /\ wpc' \in {"sendError", "return", "done"}
              /\ watchers' = watchers /\ werr' = werr

C27_IndexCleared ==
    [][C27_Step]_vars

\* an event delivered by the second watcher of a watch
C27_Witness ==
    /\ Len(watchers) = 2
    /\ watchers[2] = watchers[1]
    /\ werr = "nil"
    /\ \E j \in DOMAIN wrecv : wrecv[j].ch = "events" /\ wrecv[j].watcher = 2

\* a watch ended by another client.Error of the watcher
C27_WitnessEnded ==
    /\ wpc = "done" /\ werr = "client.Error" /\ ErrorsReceived # {}

----------------------------------------------------------------------------
\* C28: after the cancel function or CancelWatches is called the dispatcher
\* goroutine eventually terminates and closes both channels, whether or not
\* the consumer still receives from the two channels.
C28_CancelTerminates ==
    (wctx # "none") ~> (wpc = "done" /\ wclosed = [events |-> 1, errors |-> 1])

\* the context is cancelled while the dispatcher is at its send of an event
\* that the consumer no longer receives
C28_Witness ==
    /\ wctx # "none"
    /\ wpc = "sendEvent"
    /\ wconsumer = "stopped"

\* while the consumer receives, the cancelled dispatcher terminates
C28_TerminatesWhileReceiving ==
    (wctx # "none") ~> (wconsumer = "stopped" \/ (wpc = "done" /\ wclosed = [events |-> 1, errors |-> 1]))
----------------------------------------------------------------------------
(* Specification of the smoke test's shared domain: either version of the
   test, tcp_apps_domain set or not, on a platform with any of the operator's
   domains *)

OtherGroupsOfDomains ==
    <<saveVars, verifyVars, routeVars, statsVars, cfgVars, smokeVars, groupVars, protoVars, entVars, jointVars, watchVars, portVars, grabVars>>

InitDomains ==
    /\ domVersion \in {"early", "late"}
    /\ tcpAppsDomain \in {"", "tcp.example.com"}
    /\ routingConfig = ""
    /\ domainName = ""
    /\ sharedDomains \in SUBSET OperatorDomains
    /\ dpc = "before"
    /\ created = {}
    /\ deleted = {}
    /\ IdleSave
    /\ IdleVerify
    /\ IdleRoute
    /\ IdleStats
    /\ IdleConfig
    /\ IdleSmoke
    /\ IdleGroups
    /\ IdleProtocol
    /\ IdleEntries
    /\ IdleJoint
    /\ IdleWatch
    /\ IdlePorts
    /\ IdleGrab

NextDomains ==
    \/ (\E available, groupFound \in BOOLEAN : \E name \in RandomDomains :
            DomainBeforeEach(available, groupFound, name))
       /\ UNCHANGED OtherGroupsOfDomains
    \/ (\E passes \in BOOLEAN : DomainIt(passes))
       /\ UNCHANGED OtherGroupsOfDomains
    \/ DomainAfterEach
       /\ UNCHANGED OtherGroupsOfDomains

SpecDomains == InitDomains /\ [][NextDomains]_vars

----------------------------------------------------------------------------
\* what BeforeEach and AfterEach have done to the shared domains
C31_State ==
    /\ tcpAppsDomain # "" => (created = {} /\ deleted = {})
    /\ dpc \in {"it", "passed", "failed"} => (created # {} <=> tcpAppsDomain = "")
    /\ created # {} => tcpAppsDomain = ""
    /\ dpc = "done" => deleted = created

\* with tcp_apps_domain set no step of the test changes the shared domains
C31_Step ==
    tcpAppsDomain # "" => sharedDomains' = sharedDomains

\* C31: when tcp_apps_domain is configured BeforeEach only verifies that
\* domain and AfterEach never deletes it; a shared domain is created in
\* BeforeEach exactly when tcp_apps_domain is empty, and AfterEach deletes a
\* shared domain exactly when that BeforeEach created it.
C31_DomainUntouched ==
    [](C31_State) /\ [][C31_Step]_vars

\* the same for the late version of the test alone
C31_LateVersion ==
    [](domVersion = "late" => C31_State) /\ [][domVersion = "late" => C31_Step]_vars

\* the early version has deleted the operator's domain it was configured with
C31_Witness ==
    /\ domVersion = "early"
    /\ tcpAppsDomain = "tcp.example.com"
    /\ dpc = "done"
    /\ "tcp.example.com" \in deleted
    /\ "tcp.example.com" \notin sharedDomains

\* the late version has created a domain and deleted it again
C31_WitnessLate ==
    /\ domVersion = "late"
    /\ tcpAppsDomain = ""
    /\ dpc = "done"
    /\ created = {"TCP-DOMAIN-1.apps.example.com"}
    /\ deleted = created
----------------------------------------------------------------------------
(* Specification of the parallel nodes: each node runs any block at any time *)

OtherGroupsOfPorts ==
    <<saveVars, verifyVars, routeVars, statsVars, cfgVars, smokeVars, groupVars, protoVars, entVars, jointVars, watchVars, domVars, grabVars>>

InitPorts ==
    /\ IdlePorts
    /\ IdleSave
    /\ IdleVerify
    /\ IdleRoute
    /\ IdleStats
    /\ IdleConfig
    /\ IdleSmoke
    /\ IdleGroups
    /\ IdleProtocol
    /\ IdleEntries
    /\ IdleJoint
    /\ IdleWatch
    /\ IdleDomains
    /\ IdleGrab

NextPorts ==
    \/ (\E node \in 1..Nodes : \E block \in PortBlocks : PortsBeforeEach(node, block))
       /\ UNCHANGED OtherGroupsOfPorts
    \/ (\E node \in 1..Nodes : PortsUpdate(node))
       /\ UNCHANGED OtherGroupsOfPorts
    \/ (\E node \in 1..Nodes : PortsAfterEach(node))
       /\ UNCHANGED OtherGroupsOfPorts

SpecPorts == InitPorts /\ [][NextPorts]_vars

----------------------------------------------------------------------------
\* the twelve ports the claim lists for a node
C32_Listed(a) ==
    {60000 + a, 61000 + a, 62000 + a, 63000 + a, 34500 + a, 12300 + a,
     9000 + a, 9500 + a, 7000 + a, 7500 + a, 8000 + a, 8125 + a}

\* C32: for any two distinct node numbers a and b in 1..N, N at most 3, every
\* external port, sample receiver port and fake statsd port derived for node a
\* differs from every port derived for node b, and the ports derived are the
\* twelve of the list.
C32_NoSharedPort ==
    \A a, b \in 1..Nodes :
        /\ inUse[a] \subseteq C32_Listed(a)
        /\ a # b => inUse[a] \cap inUse[b] = {}

\* three nodes run blocks at once, two of them the blocks whose receivers
\* both start at 7000
C32_Witness ==
    /\ running[1] = "twoports"
    /\ running[2] = "loadbalance"
    /\ running[3] = "updated"
    /\ 7002 \in inUse[2] /\ 7001 \in inUse[1] /\ 63003 \in inUse[3]
----------------------------------------------------------------------------
(* Specification of GrabName: one call on any output *)

OtherGroupsOfGrab ==
    <<saveVars, verifyVars, routeVars, statsVars, cfgVars, smokeVars, groupVars, protoVars, entVars, jointVars, watchVars, domVars, portVars>>

InitGrab ==
    /\ logLines \in UNION {[1..n -> LogChars] : n \in 0..MaxLogLen}
    /\ gpc = "call"
    /\ grabbed = NoGrab
    /\ IdleSave
    /\ IdleVerify
    /\ IdleRoute
    /\ IdleStats
    /\ IdleConfig
    /\ IdleSmoke
    /\ IdleGroups
    /\ IdleProtocol
    /\ IdleEntries
    /\ IdleJoint
    /\ IdleWatch
    /\ IdleDomains
    /\ IdlePorts

NextGrab ==
    GrabName /\ UNCHANGED OtherGroupsOfGrab

SpecGrab == InitGrab /\ [][NextGrab]_vars

----------------------------------------------------------------------------
\* the positions of the newlines of the output, with the two ends
C35_Breaks == {0, Len(logLines) + 1} \cup {k \in 1..Len(logLines) : logLines[k] = "\n"}

\* the lines of the output, as pairs of the positions before and after
C35_Lines ==
    {<<a, b>> \in C35_Breaks \X C35_Breaks :
        a < b /\ \A k \in (a + 1)..(b - 1) : logLines[k] # "\n"}

C35_Text(l) == SubSeq(logLines, l[1] + 1, l[2] - 1)

C35_HasTcp(l) ==
    \E k \in 1..(Len(C35_Text(l)) - 2) : SubSeq(C35_Text(l), k, k + 2) = <<"t", "c", "p">>

C35_TcpLines == {l \in C35_Lines : C35_HasTcp(l)}

\* the first line that contains "tcp"
C35_FirstTcpLine ==
    C35_Text(CHOOSE l \in C35_TcpLines : \A m \in C35_TcpLines : l[1] <= m[1])

\* a line up to its first space
C35_UpToFirstSpace(t) ==
    IF \E k \in 1..Len(t) : t[k] = " "
    THEN SubSeq(t, 1, (CHOOSE k \in 1..Len(t) : t[k] = " " /\ \A j \in 1..(k - 1) : t[j] # " ") - 1)
    ELSE t

\* C35: GrabName returns the text up to the first space of the first line of
\* the output that contains "tcp"; it fails the assertion when no line
\* contains "tcp"; it never returns text of a line before that first line.
C35_NameOfFirstTcpLine ==
    gpc = "returned" =>
        /\ grabbed.failed <=> C35_TcpLines = {}
        /\ ~grabbed.failed => grabbed.name = C35_UpToFirstSpace(C35_FirstTcpLine)

\* what does hold: the assertion fails exactly when no line contains "tcp",
\* and the name returned is the start of the first line that does
C35_StartOfFirstTcpLine ==
    gpc = "returned" =>
        /\ grabbed.failed <=> C35_TcpLines = {}
        /\ ~grabbed.failed =>
              /\ Len(grabbed.name) <= Len(C35_FirstTcpLine)
              /\ grabbed.name = SubSeq(C35_FirstTcpLine, 1, Len(grabbed.name))
              /\ Len(grabbed.name) <= Len(C35_UpToFirstSpace(C35_FirstTcpLine))

\* the same when every "tcp" line has a "tcp" after its first space, as the
\* rows `name   tcp` of the command have
C35_OnRowsOfTypeTcp ==
    (gpc = "returned" /\ ~grabbed.failed
        /\ Len(C35_UpToFirstSpace(C35_FirstTcpLine)) + 4 <= Len(C35_FirstTcpLine)
        /\ SubSeq(C35_FirstTcpLine, Len(C35_FirstTcpLine) - 2, Len(C35_FirstTcpLine)) = <<"t", "c", "p">>) =>
        grabbed.name = C35_UpToFirstSpace(C35_FirstTcpLine)

\* the first line with "tcp" is "tcpc" after a line without, and GrabName
\* returned "tcp"
C35_Witness ==
    /\ gpc = "returned"
    /\ logLines = <<"p", "\n", "t", "c", "p", "c">>
    /\ grabbed = [failed |-> FALSE, name |-> <<"t", "c", "p">>]

\* a row of type tcp under a line without: the name is returned
C35_WitnessRow ==
    /\ gpc = "returned"
    /\ logLines = <<"\n", "c", " ", "t", "c", "p">>
    /\ grabbed = [failed |-> FALSE, name |-> <<"c">>]
====
